---- MODULE Spec2Model ----
(***************************************************************************)
(* The tool-call fulfillment loop of the agent notebooks                   *)
(* (04-azure-ai-agents-action-tools.ipynb, cell 8 and cell 11, and the     *)
(* same loop in 03-azure-ai-agents-knowledge-tools.ipynb), together with   *)
(* the two registered functions fetch_weather and check_network_status.    *)
(*                                                                         *)
(* The remote agent service is the environment: every answer of            *)
(* create_run / get_run is chosen freely among the run statuses and the    *)
(* batches of pending tool calls, and every remote operation may fail.     *)
(* The loop itself is deterministic; it is written as functions from the   *)
(* loop's locals (a record) and the environment's answer to the new        *)
(* locals, so that two executions can be run side by side.                 *)
(*                                                                         *)
(* The module also holds the two functions called directly (SpecCall),     *)
(* the loop with other registered functions (SpecAnyFunctions), the loop   *)
(* against a service that waits for every pending call to be answered      *)
(* (SpecRemote), the retrieval chain of 02-rag.ipynb (SpecChat), the loop  *)
(* with or without the sleep that the knowledge-tools notebook has before  *)
(* each poll (SpecNotebooks), and the loop without a bound on its polls,   *)
(* under fairness (SpecLive).                                              *)
(*   loop, shadow  the locals of the loop, and of its second execution     *)
(*   functions     the registered functions in use                         *)
(*   call          a direct call of fetch_weather / check_network_status   *)
(*   chat          the locals of chat_with_documents                       *)
(*   remote        the run as the service holds it                         *)
(***************************************************************************)
EXTENDS Integers, Sequences, FiniteSets, TLC

VARIABLES loop, shadow, functions, call, chat, remote

vars == <<loop, shadow, functions, call, chat, remote>>

(***************************************************************************)
(* Bounds of the model.                                                    *)
(***************************************************************************)
\* polls (get_run calls) of one run the model follows
MaxPolls == 2
\* pending tool calls in one required action
MaxBatch == 2

(***************************************************************************)
(* Python values.  A str is a TLA+ string; a dict is the sequence of its   *)
(* (key, value) pairs in insertion order, which is the order json.dumps    *)
(* writes them in.                                                         *)
(***************************************************************************)
Str(s) == [t |-> "str", v |-> s]
Dict(pairs) == [t |-> "dict", v |-> pairs]
None == [t |-> "None", v |-> <<>>]
\* a Python set, the example of a value json.dumps does not encode
PySet(elements) == [t |-> "set", v |-> elements]

Keys(d) == {d.v[i][1] : i \in 1..Len(d.v)}

\* d[key]; a later pair of the same key wins, as in a dict literal
Get(d, key) ==
    LET I == {i \in 1..Len(d.v) : d.v[i][1] = key}
    IN  d.v[CHOOSE i \in I : \A j \in I : j <= i][2]

\* d.get(key, default)
GetOr(d, key, default) == IF key \in Keys(d) THEN Get(d, key) ELSE default

RECURSIVE PyEq(_, _)
\* ==  of two values: dicts compare by content, not by order
PyEq(a, b) ==
    IF a.t # b.t THEN FALSE
    ELSE IF a.t = "dict"
         THEN /\ Keys(a) = Keys(b)
              /\ \A key \in Keys(a) : PyEq(Get(a, key), Get(b, key))
         ELSE a.v = b.v

(***************************************************************************)
(* json.dumps with its defaults: ensure_ascii, separators ", " and ": ".   *)
(***************************************************************************)
Ch(s, i) == SubSeq(s, i, i)

\* the characters outside ASCII that occur in the notebooks' tables, with
\* the four hex digits json writes for them
NonAscii == {"°"}
HexOf(c) == CASE c = "°" -> "00b0"
CharOf(h) == CHOOSE c \in NonAscii : HexOf(c) = h
KnownHex == {HexOf(c) : c \in NonAscii}

EscapeChar(c) ==
    IF c = "\"" THEN "\\\""
    ELSE IF c = "\\" THEN "\\\\"
    ELSE IF c \in NonAscii THEN "\\u" \o HexOf(c)
    ELSE c

RECURSIVE EscapeRange(_, _, _)
\* the characters lo..hi of s, escaped (halving keeps the evaluation shallow)
EscapeRange(s, lo, hi) ==
    IF lo > hi THEN ""
    ELSE IF lo = hi THEN EscapeChar(Ch(s, lo))
    ELSE LET mid == (lo + hi) \div 2
         IN  EscapeRange(s, lo, mid) \o EscapeRange(s, mid + 1, hi)

DumpsStr(s) == "\"" \o EscapeRange(s, 1, Len(s)) \o "\""

RECURSIVE JsonDumps(_)
RECURSIVE DumpsPairs(_, _)
DumpsPairs(pairs, i) ==
    IF i > Len(pairs) THEN ""
    ELSE (IF i > 1 THEN ", " ELSE "")
         \o DumpsStr(pairs[i][1]) \o ": " \o JsonDumps(pairs[i][2])
         \o DumpsPairs(pairs, i + 1)

RECURSIVE Serializable(_)
\* json.dumps(x) returns; it raises TypeError where this is FALSE
Serializable(x) ==
    IF x.t \in {"str", "None"} THEN TRUE
    ELSE IF x.t = "dict" THEN \A i \in 1..Len(x.v) : Serializable(x.v[i][2])
    ELSE FALSE

\* json.dumps(value)
JsonDumps(x) ==
    IF x.t = "str" THEN DumpsStr(x.v)
    ELSE IF x.t = "None" THEN "null"
    ELSE "{" \o DumpsPairs(x.v, 1) \o "}"

(***************************************************************************)
(* json.loads, for the JSON the notebooks exchange: objects whose values   *)
(* are strings, null or objects.  The result is [ok, val, pos]; ok is      *)
(* FALSE where json.loads raises.                                          *)
(***************************************************************************)
\* F applied to the value of x, which is worked out once
With(x, F(_)) == CHOOSE r \in {F(v) : v \in {x}} : TRUE

Fail == [ok |-> FALSE, val |-> None, pos |-> 0]
Parsed(val, pos) == [ok |-> TRUE, val |-> val, pos |-> pos]

At(s, i) == IF i >= 1 /\ i <= Len(s) THEN Ch(s, i) ELSE ""

RECURSIVE SkipWs(_, _)
SkipWs(s, i) == IF At(s, i) = " " THEN SkipWs(s, i + 1) ELSE i

RECURSIVE Escaped(_, _, _)
\* the character at p of the string literal whose first character is at i
\* is the second character of an escape: a backslash that is not itself
\* escaped stands right before it
Escaped(s, i, p) == p > i /\ Ch(s, p - 1) = "\\" /\ ~Escaped(s, i, p - 1)

\* the position of the quote that closes the literal, 0 if there is none
ClosingQuote(s, i) ==
    LET J == {j \in i..Len(s) : Ch(s, j) = "\"" /\ ~Escaped(s, i, j)}
    IN  IF J = {} THEN 0 ELSE CHOOSE j \in J : \A r \in J : j <= r

\* the escapes json.loads accepts among those json.dumps writes
ValidEscape(s, p, hi) ==
    \/ Ch(s, p) \in {"\"", "\\"}
    \/ Ch(s, p) = "u" /\ p + 4 <= hi /\ SubSeq(s, p + 1, p + 4) \in KnownHex

\* the character at p is one of the four hex digits of a \u escape
InHex(s, i, p) ==
    \E q \in (p - 4)..(p - 1) : q >= i /\ Ch(s, q) = "u" /\ Escaped(s, i, q)

\* what the character at p adds to the decoded string
DecodeChar(s, i, p) ==
    IF Escaped(s, i, p)
    THEN IF Ch(s, p) = "u" THEN CharOf(SubSeq(s, p + 1, p + 4)) ELSE Ch(s, p)
    ELSE IF Ch(s, p) = "\\" \/ InHex(s, i, p) THEN "" ELSE Ch(s, p)

RECURSIVE DecodeRange(_, _, _, _)
\* the characters lo..hi of the literal, decoded (by halving, as EscapeRange)
DecodeRange(s, i, lo, hi) ==
    IF lo > hi THEN ""
    ELSE IF lo = hi THEN DecodeChar(s, i, lo)
    ELSE LET mid == (lo + hi) \div 2
         IN  DecodeRange(s, i, lo, mid) \o DecodeRange(s, i, mid + 1, hi)

\* the characters of a string literal after its opening quote
ReadChars(s, i) ==
    With(ClosingQuote(s, i), LAMBDA j :
        IF j = 0 THEN Fail
        ELSE IF \E p \in i..(j - 1) : Escaped(s, i, p) /\ ~ValidEscape(s, p, j - 1)
        THEN Fail
        ELSE Parsed(Str(DecodeRange(s, i, i, j - 1)), j + 1))

ParseString(s, i) == IF At(s, i) = "\"" THEN ReadChars(s, i + 1) ELSE Fail

RECURSIVE ParseValue(_, _)
RECURSIVE ParseMembers(_, _, _)
\* the members of an object from position i on, up to its closing brace
ParseMembers(s, i, acc) ==
    With(ParseString(s, i), LAMBDA key :
        IF ~key.ok THEN Fail
        ELSE With(SkipWs(s, key.pos), LAMBDA c :
        IF At(s, c) # ":" THEN Fail
        ELSE With(ParseValue(s, SkipWs(s, c + 1)), LAMBDA val :
        IF ~val.ok THEN Fail
        ELSE With(SkipWs(s, val.pos), LAMBDA e :
        IF At(s, e) = ","
        THEN ParseMembers(s, SkipWs(s, e + 1), Append(acc, <<key.val.v, val.val>>))
        ELSE IF At(s, e) = "}"
        THEN Parsed(Dict(Append(acc, <<key.val.v, val.val>>)), e + 1)
        ELSE Fail))))

ParseValue(s, i) ==
    IF At(s, i) = "\"" THEN ParseString(s, i)
    ELSE IF At(s, i) = "{"
         THEN IF At(s, SkipWs(s, i + 1)) = "}"
              THEN Parsed(Dict(<<>>), SkipWs(s, i + 1) + 1)
              ELSE ParseMembers(s, SkipWs(s, i + 1), <<>>)
    ELSE IF i + 3 <= Len(s) /\ SubSeq(s, i, i + 3) = "null" THEN Parsed(None, i + 4)
    ELSE Fail

\* json.loads(s): the whole text must be one value
JsonLoads(s) ==
    With(ParseValue(s, SkipWs(s, 1)), LAMBDA r :
        IF r.ok /\ SkipWs(s, r.pos) = Len(s) + 1 THEN r ELSE Fail)

(***************************************************************************)
(* The registered functions (cell 3).                                      *)
(***************************************************************************)
mock_weather_data ==
    Dict(<< <<"New York", Str("Sunny, 25°C")>>,
            <<"London", Str("Cloudy, 18°C")>>,
            <<"Tokyo", Str("Rainy, 22°C")>>,
            <<"Stockholm", Str("Snowy, -5°C")>> >>)

WeatherDefault == Str("Weather data not available for this location.")

\* fetch_weather with mock_weather_data.get(location), the default left out
fetch_weather_without_default(location) ==
    LET weather == GetOr(mock_weather_data, location, None)
        weather_json == JsonDumps(Dict(<< <<"weather", weather>> >>))
    IN  weather_json

\* def fetch_weather(location: str) -> str
fetch_weather(location) ==
    LET weather == GetOr(mock_weather_data, location, WeatherDefault)
        weather_json == JsonDumps(Dict(<< <<"weather", weather>> >>))
    IN  weather_json

network_data ==
    Dict(<< <<"Stockholm",
              Dict(<< <<"5G", Str("Operational - 98.7% coverage")>>,
                      <<"4G", Str("Operational - 99.9% coverage")>>,
                      <<"VoLTE", Str("Operational")>> >>)>>,
            <<"Gothenburg",
              Dict(<< <<"5G", Str("Partial outage - 85.3% coverage")>>,
                      <<"4G", Str("Operational - 99.5% coverage")>>,
                      <<"VoLTE", Str("Operational")>> >>)>>,
            <<"New York",
              Dict(<< <<"5G", Str("Operational - 92.1% coverage")>>,
                      <<"4G", Str("Operational - 99.7% coverage")>>,
                      <<"VoLTE", Str("Maintenance in progress")>> >>)>>,
            <<"London",
              Dict(<< <<"5G", Str("Operational - 90.5% coverage")>>,
                      <<"4G", Str("Operational - 99.8% coverage")>>,
                      <<"VoLTE", Str("Operational")>> >>)>> >>)

Timestamp == Str("2025-04-04T10:30:00Z")

\* truth value of an Optional[str] argument
Truthy(x) == x.t = "str" /\ x.v # ""

\* check_network_status with the service type tested before the location
check_network_status_service_first(location, service_type) ==
    IF /\ Truthy(service_type)
       /\ \A l \in Keys(network_data) : service_type.v \notin Keys(Get(network_data, l))
    THEN JsonDumps(Dict(<< <<"error",
             Str("Service type " \o service_type.v \o " not available in " \o location)>> >>))
    ELSE IF location \notin Keys(network_data)
    THEN JsonDumps(Dict(<< <<"error", Str("Location not found in network database")>> >>))
    ELSE IF Truthy(service_type)
    THEN JsonDumps(Dict(<< <<"location", Str(location)>>,
                           <<"service", service_type>>,
                           <<"status", Get(Get(network_data, location), service_type.v)>>,
                           <<"timestamp", Timestamp>> >>))
    ELSE JsonDumps(Dict(<< <<"location", Str(location)>>,
                           <<"services", Get(network_data, location)>>,
                           <<"timestamp", Timestamp>> >>))

\* check_network_status without the return of all services (lines 177-181):
\* a call without a service type falls into the error of line 174
check_network_status_requires_service(location, service_type) ==
    IF location \notin Keys(network_data)
    THEN JsonDumps(Dict(<< <<"error", Str("Location not found in network database")>> >>))
    ELSE IF Truthy(service_type) /\ service_type.v \in Keys(Get(network_data, location))
    THEN JsonDumps(Dict(<< <<"location", Str(location)>>,
                           <<"service", service_type>>,
                           <<"status", Get(Get(network_data, location), service_type.v)>>,
                           <<"timestamp", Timestamp>> >>))
    ELSE JsonDumps(Dict(<< <<"error",
             Str("Service type "
                 \o (IF service_type.t = "str" THEN service_type.v ELSE "None")
                 \o " not available in " \o location)>> >>))

\* def check_network_status(location: str, service_type: Optional[str] = None) -> str
check_network_status(location, service_type) ==
    IF location \notin Keys(network_data)
    THEN JsonDumps(Dict(<< <<"error", Str("Location not found in network database")>> >>))
    ELSE IF Truthy(service_type)
    THEN IF service_type.v \in Keys(Get(network_data, location))
         THEN JsonDumps(Dict(<< <<"location", Str(location)>>,
                                <<"service", service_type>>,
                                <<"status", Get(Get(network_data, location), service_type.v)>>,
                                <<"timestamp", Timestamp>> >>))
         ELSE JsonDumps(Dict(<< <<"error",
                  Str("Service type " \o service_type.v \o " not available in " \o location)>> >>))
    ELSE JsonDumps(Dict(<< <<"location", Str(location)>>,
                           <<"services", Get(network_data, location)>>,
                           <<"timestamp", Timestamp>> >>))

\* agent_functions: the names FunctionTool(functions=agent_functions) registers
agent_functions == {"fetch_weather", "check_network_status"}

(***************************************************************************)
(* The remote service's answers.                                           *)
(***************************************************************************)
Active == {"queued", "in_progress", "requires_action"}
Terminal == {"completed", "failed", "cancelled", "expired"}
RunStatus == Active \cup Terminal

ToolCall(id, type, name, arguments) ==
    [id |-> id, type |-> type, name |-> name, arguments |-> arguments]

\* the pending tool calls the service may list, in the order it lists
\* them: a call of a function that is not registered, the two calls of the
\* notebook's recorded runs, a call that is no function call and a call
\* whose arguments are cut off
call_unknown ==
    ToolCall("call_1", "function", "get_stock_price", "{\"symbol\":\"ERIC\"}")
call_weather ==
    ToolCall("call_2", "function", "fetch_weather", "{\"location\":\"Stockholm\"}")
call_other ==
    ToolCall("call_3", "code_interpreter", "", "")
call_cut ==
    ToolCall("call_4", "function", "fetch_weather", "{\"location\":\"Stock")
call_network ==
    ToolCall("call_5", "function", "check_network_status",
             "{\"location\":\"Stockholm\",\"service_type\":\"5G\"}")

ToolCalls == <<call_unknown, call_weather, call_other, call_cut, call_network>>

RECURSIVE Pick(_, _)
\* the calls of ToolCalls at the positions in P, in the order of ToolCalls
Pick(P, i) ==
    IF i > Len(ToolCalls) THEN <<>>
    ELSE (IF i \in P THEN <<ToolCalls[i]>> ELSE <<>>) \o Pick(P, i + 1)

\* the lists of at most MaxBatch pending calls
Batches ==
    {Pick(P, 1) : P \in {Q \in SUBSET (1..Len(ToolCalls)) : Cardinality(Q) <= MaxBatch}}

Run(status, required_action, tool_calls) ==
    [status |-> status, required_action |-> required_action, tool_calls |-> tool_calls]

NoRun == Run("", "None", <<>>)

\* what get_run may answer
Responses ==
    {Run(st, "None", <<>>) : st \in RunStatus \ {"requires_action"}}
    \cup {Run("requires_action", "SubmitToolOutputsAction", b) : b \in Batches}
    \cup {Run("requires_action", "RequiredAction", <<>>)}

\* what create_run may answer: the loop reads only the status of it
CreateResponses == {Run(st, "None", <<>>) : st \in RunStatus}

(***************************************************************************)
(* The record of what the loop did: remote operations, invocations of      *)
(* registered functions and the per-call error print.                      *)
(***************************************************************************)
Event(op, ok, run, outputs, id) ==
    [op |-> op, ok |-> ok, run |-> run, outputs |-> outputs, id |-> id]

ToolOutput(tool_call_id, output) == [tool_call_id |-> tool_call_id, output |-> output]

(***************************************************************************)
(* functions.execute(tool_call): look the name up among the registered     *)
(* functions, decode the arguments, call the function.  The result is      *)
(* [raised, value].                                                        *)
(***************************************************************************)
Returned(value) == [raised |-> FALSE, value |-> value]
Raised == [raised |-> TRUE, value |-> None]

IsStr(x) == x.t = "str"

\* whether function(**arguments) binds the arguments to the parameters
Binds(name, arguments) ==
    IF name = "fetch_weather"
    THEN Keys(arguments) = {"location"} /\ IsStr(Get(arguments, "location"))
    ELSE /\ "location" \in Keys(arguments)
         /\ Keys(arguments) \subseteq {"location", "service_type"}
         /\ IsStr(Get(arguments, "location"))

\* function(**arguments) for the functions of cell 3
CallRegistered(name, arguments) ==
    IF name = "fetch_weather"
    THEN Str(fetch_weather(Get(arguments, "location").v))
    ELSE Str(check_network_status(Get(arguments, "location").v,
                                  GetOr(arguments, "service_type", None)))

\* functions of the same names and parameters that return other values
CallMock(name, arguments) ==
    IF name = "fetch_weather"
    THEN Dict(<< <<"weather", Str("mock")>> >>)
    ELSE Str("{\"error\": \"mock\"}")

\* functions of the same names of which one returns a dict that holds a set
CallUnserializable(name, arguments) ==
    IF name = "fetch_weather"
    THEN Dict(<< <<"weather", PySet({"Snowy", "-5"})>> >>)
    ELSE Str("{\"status\": \"mock\"}")

execute(fns, tool_call) ==
    With(JsonLoads(tool_call.arguments), LAMBDA arguments :
        IF tool_call.name \notin agent_functions THEN Raised
        ELSE IF ~arguments.ok \/ arguments.val.t # "dict" THEN Raised
        ELSE IF ~Binds(tool_call.name, arguments.val) THEN Raised
        ELSE IF fns = "agent_functions"
             THEN Returned(CallRegistered(tool_call.name, arguments.val))
        ELSE IF fns = "mock"
             THEN Returned(CallMock(tool_call.name, arguments.val))
             ELSE Returned(CallUnserializable(tool_call.name, arguments.val)))

\* execute, worked out once for the calls and the functions of the model
Registries == {"agent_functions", "mock", "unserializable"}
Executed ==
    [fns \in Registries |->
        [i \in 1..Len(ToolCalls) |-> execute(fns, ToolCalls[i])]]

PositionOf(tool_call) == CHOOSE i \in 1..Len(ToolCalls) : ToolCalls[i] = tool_call

\* output = functions.execute(tool_call)
functions_execute(fns, tool_call) == Executed[fns][PositionOf(tool_call)]

(***************************************************************************)
(* The loop (cell 8, lines 363-401).  Its locals:                          *)
(*   pc            where the loop stands                                   *)
(*   run           the run object of the last create_run / get_run         *)
(*   tool_calls    run.required_action.submit_tool_outputs.tool_calls      *)
(*   tool_outputs  the ToolOutputs collected in this iteration             *)
(*   k             the position of the for loop in tool_calls              *)
(*   trace         what the loop has done so far                           *)
(***************************************************************************)
Locals ==
    [pc |-> "create_run", run |-> NoRun, tool_calls |-> <<>>,
     tool_outputs |-> <<>>, k |-> 0, trace |-> <<>>]

Log(l, e) == Append(l.trace, e)

\* an uncaught exception of a remote operation leaves the cell
Uncaught(l, op, outputs) ==
    [l EXCEPT !.pc = "raised", !.trace = Log(l, Event(op, FALSE, l.run, outputs, ""))]

\* the loop as a do-while: the first poll is made without a test of the
\* status create_run returned
create_run_then_poll(l, resp, ok) ==
    IF ~ok THEN Uncaught(l, "create_run", <<>>)
    ELSE [l EXCEPT !.pc = "get_run", !.run = resp,
                   !.trace = Log(l, Event("create_run", TRUE, resp, <<>>, ""))]

\* run = project_client.agents.create_run(...)
create_run(l, resp, ok) ==
    IF ~ok THEN Uncaught(l, "create_run", <<>>)
    ELSE [l EXCEPT !.pc = "while", !.run = resp,
                   !.trace = Log(l, Event("create_run", TRUE, resp, <<>>, ""))]

\* (mutant) "in_progress" is missing from the list of the while statement
while_test_without_in_progress(l) ==
    [l EXCEPT !.pc = IF l.run.status \in {"queued", "requires_action"}
                     THEN "get_run" ELSE "done"]

\* (mutant) the while statement lists the statuses that end the loop, and
\* "expired" is not among them
while_test_polls_expired(l) ==
    [l EXCEPT !.pc = IF l.run.status \notin {"completed", "failed", "cancelled"}
                     THEN "get_run" ELSE "done"]

\* while run.status in ["queued", "in_progress", "requires_action"]:
while_test(l) ==
    [l EXCEPT !.pc = IF l.run.status \in Active THEN "get_run" ELSE "done"]

\* if run.status == "requires_action" and isinstance(run.required_action, SubmitToolOutputsAction):
requires_tool_outputs(run) ==
    run.status = "requires_action" /\ run.required_action = "SubmitToolOutputsAction"

\* (mutant) tool_outputs is created once, before the loop
keep_tool_outputs(l) == l.tool_outputs

\* tool_outputs = []
new_tool_outputs(l) == <<>>

\* the pending calls of an earlier poll are gone through again when the
\* poll returns no action
get_run_stale_calls(l, resp, ok) ==
    IF ~ok THEN Uncaught(l, "get_run", <<>>)
    ELSE LET polled == [l EXCEPT !.run = resp,
                            !.trace = Log(l, Event("get_run", TRUE, resp, <<>>, ""))]
         IN  IF ~requires_tool_outputs(resp)
             THEN IF l.tool_calls # <<>>
                  THEN [polled EXCEPT !.pc = "for", !.tool_outputs = <<>>, !.k = 1]
                  ELSE [polled EXCEPT !.pc = "while"]
             ELSE IF resp.tool_calls = <<>>
                  THEN [polled EXCEPT !.pc = "cancel_run", !.tool_calls = resp.tool_calls]
                  ELSE [polled EXCEPT !.pc = "for", !.tool_calls = resp.tool_calls,
                                      !.tool_outputs = new_tool_outputs(l), !.k = 1]

\* run = project_client.agents.get_run(...), and the branch taken on it
get_run(l, resp, ok) ==
    IF ~ok THEN Uncaught(l, "get_run", <<>>)
    ELSE LET polled == [l EXCEPT !.run = resp,
                            !.trace = Log(l, Event("get_run", TRUE, resp, <<>>, ""))]
         IN  IF ~requires_tool_outputs(resp) THEN [polled EXCEPT !.pc = "while"]
             ELSE IF resp.tool_calls = <<>>
                  THEN [polled EXCEPT !.pc = "cancel_run", !.tool_calls = resp.tool_calls]
                  ELSE [polled EXCEPT !.pc = "for", !.tool_calls = resp.tool_calls,
                                      !.tool_outputs = new_tool_outputs(l), !.k = 1]

\* the run that cancel_run returns is assigned to run before the break
cancel_run_assigns_result(l, ok) ==
    IF ~ok THEN Uncaught(l, "cancel_run", <<>>)
    ELSE [l EXCEPT !.pc = "done",
                   !.run = Run("cancelled", "None", <<>>),
                   !.trace = Log(l, Event("cancel_run", TRUE, l.run, <<>>, ""))]

\* (mutant) the break after cancel_run is missing
cancel_run_no_break(l, ok) ==
    IF ~ok THEN Uncaught(l, "cancel_run", <<>>)
    ELSE [l EXCEPT !.pc = "while",
                   !.trace = Log(l, Event("cancel_run", TRUE, l.run, <<>>, ""))]

\* project_client.agents.cancel_run(...); break
cancel_run(l, ok) ==
    IF ~ok THEN Uncaught(l, "cancel_run", <<>>)
    ELSE [l EXCEPT !.pc = "done",
                   !.trace = Log(l, Event("cancel_run", TRUE, l.run, <<>>, ""))]

\* (mutant) the output is JSON-encoded whether or not it is a string
as_output_always_dumps(output) == JsonDumps(output)

\* if not isinstance(output, str): output = json.dumps(output)
as_output(output) == IF IsStr(output) THEN output.v ELSE JsonDumps(output)

\* (mutant) the submission is made inside the for loop, which it ends
after_tool_call_submits_at_once(l, tool_outputs) ==
    IF tool_outputs # <<>> THEN "submit_tool_outputs"
    ELSE IF l.k < Len(l.tool_calls) THEN "for" ELSE "while"

\* a batch of which nothing was collected is cancelled
after_tool_call_cancels_when_empty(l, tool_outputs) ==
    IF l.k < Len(l.tool_calls) THEN "for"
    ELSE IF tool_outputs # <<>> THEN "submit_tool_outputs" ELSE "cancel_run"

\* the submission without the test  if tool_outputs:  of line 396
after_tool_call_submits_empty(l, tool_outputs) ==
    IF l.k < Len(l.tool_calls) THEN "for" ELSE "submit_tool_outputs"

\* a batch of which nothing was collected ends the loop
after_tool_call_breaks_when_empty(l, tool_outputs) ==
    IF l.k < Len(l.tool_calls) THEN "for"
    ELSE IF tool_outputs # <<>> THEN "submit_tool_outputs" ELSE "done"

\* where the loop goes after the body of the for loop has run for tool_calls[k]
after_tool_call(l, tool_outputs) ==
    IF l.k < Len(l.tool_calls) THEN "for"
    ELSE IF tool_outputs # <<>> THEN "submit_tool_outputs" ELSE "while"

\* (mutant) the try statement encloses the for loop: the first failure ends it
on_exception_ends_batch(l, tool_call) ==
    [l EXCEPT !.pc = IF l.tool_outputs # <<>> THEN "submit_tool_outputs" ELSE "while",
              !.k = Len(l.tool_calls) + 1,
              !.trace = Log(l, Event("execute", FALSE, l.run, <<>>, tool_call.id))
                        \o <<Event("print_error", TRUE, l.run, <<>>, tool_call.id)>>]

\* (mutant) the handler records an error output for the failed call
on_exception_placeholder(l, tool_call) ==
    LET tool_outputs == Append(l.tool_outputs,
                               ToolOutput(tool_call.id, "{\"error\": \"failed\"}"))
    IN  [l EXCEPT !.pc = after_tool_call(l, tool_outputs), !.k = l.k + 1,
                  !.tool_outputs = tool_outputs,
                  !.trace = Log(l, Event("execute", FALSE, l.run, <<>>, tool_call.id))
                            \o <<Event("print_error", TRUE, l.run, <<>>, tool_call.id)>>]

\* except Exception as e: print(f"Error executing tool_call {tool_call.id}: {e}")
on_exception(l, tool_call) ==
    [l EXCEPT !.pc = after_tool_call(l, l.tool_outputs), !.k = l.k + 1,
              !.trace = Log(l, Event("execute", FALSE, l.run, <<>>, tool_call.id))
                        \o <<Event("print_error", TRUE, l.run, <<>>, tool_call.id)>>]

\* (mutant) a result that is a JSON object with an "error" member is
\* taken for a failed call
for_tool_call_reads_result(l, fns) ==
    LET tool_call == l.tool_calls[l.k]
        output == functions_execute(fns, tool_call)
        text == as_output(output.value)
        result == JsonLoads(text)
        tool_outputs == Append(l.tool_outputs, ToolOutput(tool_call.id, text))
    IN  IF tool_call.type # "function"
        THEN [l EXCEPT !.pc = after_tool_call(l, l.tool_outputs), !.k = l.k + 1]
        ELSE IF output.raised THEN on_exception(l, tool_call)
        ELSE IF result.ok /\ result.val.t = "dict" /\ "error" \in Keys(result.val)
        THEN on_exception(l, tool_call)
        ELSE [l EXCEPT !.pc = after_tool_call(l, tool_outputs), !.k = l.k + 1,
                       !.tool_outputs = tool_outputs,
                       !.trace = Log(l, Event("execute", TRUE, l.run, <<>>, tool_call.id))]

\* json.dumps outside the try statement: its exception leaves the cell
on_dumps_exception_uncaught(l, tool_call) ==
    [l EXCEPT !.pc = "raised",
              !.trace = Log(l, Event("execute", TRUE, l.run, <<>>, tool_call.id))]

\* the except branch reached from json.dumps (line 385): the function has
\* returned, the error is printed, nothing is appended
on_dumps_exception(l, tool_call) ==
    [l EXCEPT !.pc = after_tool_call(l, l.tool_outputs), !.k = l.k + 1,
              !.trace = Log(l, Event("execute", TRUE, l.run, <<>>, tool_call.id))
                        \o <<Event("print_error", TRUE, l.run, <<>>, tool_call.id)>>]

\* the new ToolOutput put in front of the list
tool_outputs_insert(tool_outputs, tool_output) == <<tool_output>> \o tool_outputs

\* tool_outputs.append(ToolOutput(...))
tool_outputs_append(tool_outputs, tool_output) == Append(tool_outputs, tool_output)

\* the for loop without the isinstance test of line 379
for_tool_call_any_type(l, fns) ==
    LET tool_call == l.tool_calls[l.k]
        output == functions_execute(fns, tool_call)
        tool_outputs ==
            tool_outputs_append(l.tool_outputs,
                                ToolOutput(tool_call.id, as_output(output.value)))
    IN  IF output.raised THEN on_exception(l, tool_call)
        ELSE IF ~IsStr(output.value) /\ ~Serializable(output.value)
        THEN on_dumps_exception(l, tool_call)
        ELSE [l EXCEPT !.pc = after_tool_call(l, tool_outputs), !.k = l.k + 1,
                       !.tool_outputs = tool_outputs,
                       !.trace = Log(l, Event("execute", TRUE, l.run, <<>>, tool_call.id))]

\* a call whose id was answered in an earlier iteration is passed over
for_tool_call_once_per_id(l, fns) ==
    LET tool_call == l.tool_calls[l.k]
        output == functions_execute(fns, tool_call)
        tool_outputs ==
            tool_outputs_append(l.tool_outputs,
                                ToolOutput(tool_call.id, as_output(output.value)))
        handled == \E j \in 1..Len(l.trace) :
                      /\ l.trace[j].op = "execute" /\ l.trace[j].ok
                      /\ l.trace[j].id = tool_call.id
    IN  IF tool_call.type # "function" \/ handled
        THEN [l EXCEPT !.pc = after_tool_call(l, l.tool_outputs), !.k = l.k + 1]
        ELSE IF output.raised THEN on_exception(l, tool_call)
        ELSE IF ~IsStr(output.value) /\ ~Serializable(output.value)
        THEN on_dumps_exception(l, tool_call)
        ELSE [l EXCEPT !.pc = after_tool_call(l, tool_outputs), !.k = l.k + 1,
                       !.tool_outputs = tool_outputs,
                       !.trace = Log(l, Event("execute", TRUE, l.run, <<>>, tool_call.id))]

\* one turn of  for tool_call in tool_calls:
for_tool_call(l, fns) ==
    LET tool_call == l.tool_calls[l.k]
        output == functions_execute(fns, tool_call)
        tool_outputs ==
            tool_outputs_append(l.tool_outputs,
                                ToolOutput(tool_call.id, as_output(output.value)))
    IN  IF tool_call.type # "function"
        THEN [l EXCEPT !.pc = after_tool_call(l, l.tool_outputs), !.k = l.k + 1]
        ELSE IF output.raised THEN on_exception(l, tool_call)
        ELSE IF ~IsStr(output.value) /\ ~Serializable(output.value)
        THEN on_dumps_exception(l, tool_call)
        ELSE [l EXCEPT !.pc = after_tool_call(l, tool_outputs), !.k = l.k + 1,
                       !.tool_outputs = tool_outputs,
                       !.trace = Log(l, Event("execute", TRUE, l.run, <<>>, tool_call.id))]

\* a break after the submission: the loop is left once outputs are sent
submit_tool_outputs_to_run_then_break(l, ok) ==
    IF ~ok THEN Uncaught(l, "submit_tool_outputs", l.tool_outputs)
    ELSE [l EXCEPT !.pc = "done",
                   !.trace = Log(l, Event("submit_tool_outputs", TRUE, l.run,
                                          l.tool_outputs, ""))]

\* (mutant) the submission stands inside a try statement that prints the error
submit_tool_outputs_to_run_caught(l, ok) ==
    [l EXCEPT !.pc = "while",
              !.trace = Log(l, Event("submit_tool_outputs", ok, l.run, l.tool_outputs, ""))]

\* if tool_outputs: project_client.agents.submit_tool_outputs_to_run(...)
submit_tool_outputs_to_run(l, ok) ==
    IF ~ok THEN Uncaught(l, "submit_tool_outputs", l.tool_outputs)
    ELSE [l EXCEPT !.pc = "while",
                   !.trace = Log(l, Event("submit_tool_outputs", TRUE, l.run,
                                          l.tool_outputs, ""))]

NumPolls(l) == Cardinality({i \in 1..Len(l.trace) : l.trace[i].op = "get_run"})

(***************************************************************************)
(* The notebook's run of the loop, with the functions of cell 3.           *)
(***************************************************************************)
\* the parts of the notebooks that are not running
NoCall ==
    [pc |-> "idle", function |-> "", location |-> "", service_type |-> None,
     result |-> ""]
NoChat == [pc |-> "idle"]
NoRemote == [status |-> "none", tool_calls |-> <<>>, rounds |-> 0, answered |-> 0]

\* functions = FunctionTool(functions=agent_functions)
Init ==
    /\ loop = Locals
    /\ shadow = Locals
    /\ functions = "agent_functions"
    /\ call = NoCall
    /\ chat = NoChat
    /\ remote = NoRemote

CreateRun ==
    /\ loop.pc = "create_run"
    /\ \E resp \in CreateResponses, ok \in BOOLEAN : loop' = create_run(loop, resp, ok)
    /\ UNCHANGED <<shadow, functions, call, chat, remote>>

WhileTest ==
    /\ loop.pc = "while"
    /\ loop' = while_test(loop)
    /\ UNCHANGED <<shadow, functions, call, chat, remote>>

GetRun ==
    /\ loop.pc = "get_run"
    /\ NumPolls(loop) < MaxPolls
    /\ \E resp \in Responses, ok \in BOOLEAN : loop' = get_run(loop, resp, ok)
    /\ UNCHANGED <<shadow, functions, call, chat, remote>>

CancelRun ==
    /\ loop.pc = "cancel_run"
    /\ \E ok \in BOOLEAN : loop' = cancel_run(loop, ok)
    /\ UNCHANGED <<shadow, functions, call, chat, remote>>

ForToolCall ==
    /\ loop.pc = "for"
    /\ loop' = for_tool_call(loop, functions)
    /\ UNCHANGED <<shadow, functions, call, chat, remote>>

SubmitToolOutputs ==
    /\ loop.pc = "submit_tool_outputs"
    /\ \E ok \in BOOLEAN : loop' = submit_tool_outputs_to_run(loop, ok)
    /\ UNCHANGED <<shadow, functions, call, chat, remote>>

Next ==
    \/ CreateRun
    \/ WhileTest
    \/ GetRun
    \/ CancelRun
    \/ ForToolCall
    \/ SubmitToolOutputs

Spec == Init /\ [][Next]_vars

(***************************************************************************)
(* The loop with any of the sets of functions: those of cell 3, or         *)
(* functions of the same names that return a dict, or a set.  The service  *)
(* asks for calls with well-formed arguments here: of the two functions,   *)
(* and of one that is not registered.                                      *)
(***************************************************************************)
WellFormedCalls == {call_unknown, call_weather, call_network}

WellFormedResponses ==
    {resp \in Responses :
        \A n \in 1..Len(resp.tool_calls) : resp.tool_calls[n] \in WellFormedCalls}

GetRunWellFormed ==
    /\ loop.pc = "get_run"
    /\ NumPolls(loop) < MaxPolls
    /\ \E resp \in WellFormedResponses, ok \in BOOLEAN : loop' = get_run(loop, resp, ok)
    /\ UNCHANGED <<shadow, functions, call, chat, remote>>

NextAnyFunctions ==
    \/ CreateRun
    \/ WhileTest
    \/ GetRunWellFormed
    \/ CancelRun
    \/ ForToolCall
    \/ SubmitToolOutputs

InitAnyFunctions ==
    /\ loop = Locals
    /\ shadow = Locals
    /\ functions \in Registries
    /\ call = NoCall
    /\ chat = NoChat
    /\ remote = NoRemote

SpecAnyFunctions == InitAnyFunctions /\ [][NextAnyFunctions]_vars

(***************************************************************************)
(* Two executions side by side: the same answers of the service, the       *)
(* functions of cell 3 in one and functions returning other values in the  *)
(* other.                                                                  *)
(***************************************************************************)
Step(l, resp, ok, fns) ==
    CASE l.pc = "create_run" -> create_run(l, resp, ok)
      [] l.pc = "while" -> while_test(l)
      [] l.pc = "get_run" -> get_run(l, resp, ok)
      [] l.pc = "cancel_run" -> cancel_run(l, ok)
      [] l.pc = "for" -> for_tool_call(l, fns)
      [] l.pc = "submit_tool_outputs" -> submit_tool_outputs_to_run(l, ok)
      [] OTHER -> l

Ended(l) == l.pc \in {"done", "raised"}

\* the answers the environment has to choose among at this step
AnswersNow ==
    IF "create_run" \in {loop.pc, shadow.pc} THEN CreateResponses
    ELSE IF "get_run" \in {loop.pc, shadow.pc} THEN Responses
    ELSE {NoRun}

RemoteSteps == {"create_run", "get_run", "cancel_run", "submit_tool_outputs"}

OutcomesNow == IF {loop.pc, shadow.pc} \cap RemoteSteps # {} THEN BOOLEAN ELSE {TRUE}

PairStep ==
    /\ ~Ended(loop) \/ ~Ended(shadow)
    /\ loop.pc = "get_run" => NumPolls(loop) < MaxPolls
    /\ shadow.pc = "get_run" => NumPolls(shadow) < MaxPolls
    /\ \E resp \in AnswersNow, ok \in OutcomesNow :
          /\ loop' = Step(loop, resp, ok, "agent_functions")
          /\ shadow' = Step(shadow, resp, ok, "mock")
    /\ UNCHANGED <<functions, call, chat, remote>>

SpecPair == Init /\ [][PairStep]_vars

(***************************************************************************)
(* The functions of cell 3 called directly, as functions.execute calls     *)
(* them once the arguments are bound: location is any str, service_type    *)
(* any str or None.                                                        *)
(***************************************************************************)
Locations ==
    {"New York", "London", "Tokyo", "Stockholm", "Gothenburg", "Paris",
     "stockholm", ""}
ServiceTypes ==
    {None, Str(""), Str("5G"), Str("4G"), Str("VoLTE"), Str("3G"),
     Str("\"5G\"")}

InitCall ==
    /\ loop = Locals
    /\ shadow = Locals
    /\ functions = "agent_functions"
    /\ \E location \in Locations, service_type \in ServiceTypes :
          call = [NoCall EXCEPT !.pc = "bound", !.location = location,
                                !.service_type = service_type]
    /\ chat = NoChat
    /\ remote = NoRemote

FetchWeather ==
    /\ call.pc = "bound"
    /\ call' = [call EXCEPT !.pc = "returned", !.function = "fetch_weather",
                            !.result = fetch_weather(call.location)]
    /\ UNCHANGED <<loop, shadow, functions, chat, remote>>

CheckNetworkStatus ==
    /\ call.pc = "bound"
    /\ call' = [call EXCEPT !.pc = "returned",
                            !.function = "check_network_status",
                            !.result = check_network_status(call.location,
                                                            call.service_type)]
    /\ UNCHANGED <<loop, shadow, functions, chat, remote>>

NextCall == FetchWeather \/ CheckNetworkStatus

SpecCall == InitCall /\ [][NextCall]_vars

(***************************************************************************)
(* The retrieval chain of 02-rag.ipynb: chat_with_documents(messages)      *)
(* calls get_documents(messages), which asks the chat model for the        *)
(* intent, embeds it and searches with it; the documents found go into     *)
(* the system message of the final completion.  The three services are     *)
(* the environment: each call may raise, and what it returns is chosen     *)
(* among a few values.  A formatted prompt is kept as the template         *)
(* together with the value put into it.                                    *)
(***************************************************************************)
\* messages the model follows in one conversation
MaxMessages == 2
\* def get_documents(messages: list, top: int=3)
Top == 3
\* max_tokens of the final completion
MaxTokens == 1000

SystemMessage(content) == [role |-> "system", content |-> content]
UserMessage(content) == [role |-> "user", content |-> content]
Format(template, argument) == [template |-> template, argument |-> argument]

get_intent_system_message(conversation_history) ==
    SystemMessage(Format("INTENT_SYSTEM_PROMPT", conversation_history))

get_completion_system_message(retrieved_context) ==
    SystemMessage(Format("SYSTEM_PROMPT", retrieved_context))

\* the messages a caller passes: dicts with a role and a content, and one
\* that has no content
InputMessages ==
    { Dict(<< <<"role", Str("user")>>, <<"content", Str("how do llms differ?")>> >>),
      Dict(<< <<"role", Str("assistant")>>, <<"content", Str("they are trained on text")>> >>),
      Dict(<< <<"role", Str("user")>> >>) }

Conversations ==
    UNION {[1..n -> InputMessages] : n \in 0..MaxMessages}

\* what the chat model may write when asked for the intent
IntentContents ==
    { "{\"intent\": \"llm versus diffusion models\"}",
      "{\"intent\": \"training of llms\", \"lang\": \"en\"}",
      "llm versus diffusion models",
      "{\"query\": \"llm versus diffusion models\"}",
      "\"llm versus diffusion models\"" }

\* what the embeddings model may return
Embeddings == {<<1, 0>>, <<0, 1>>}

SearchResult(id) ==
    Dict(<< <<"id", Str(id)>>, <<"content", Str("content of " \o id)>>,
            <<"title", Str("title of " \o id)>>, <<"url", Str("https://" \o id)>>,
            <<"@search.score", Str("0.03")>> >>)

\* what the search may find
SearchResults ==
    {<<>>, <<SearchResult("doc1")>>, <<SearchResult("doc2"), SearchResult("doc1")>>}

\* the final answers of the chat model
Answers == {"answer [1]"}

VectorizedQuery(vector) ==
    [vector |-> vector, k_nearest_neighbors |-> 50, fields |-> "text_vector"]

RemoteCall(op, input, ok, output) ==
    [op |-> op, input |-> input, ok |-> ok, output |-> output]

\* the locals of chat_with_documents and of get_documents
ChatLocals ==
    [pc |-> "intent", messages |-> <<>>, intent_query_response |-> "",
     enhanced_search_query |-> None, embedding |-> <<>>, documents |-> <<>>,
     formatted_messages |-> <<>>, response |-> "", trace |-> <<>>]

ChatRaised(c, call_) == [c EXCEPT !.pc = "raised", !.trace = Append(c.trace, call_)]

\* intent_query_response = chat.complete(messages=[get_intent_system_message(messages)])
intent_complete(c, content, ok) ==
    LET request == <<get_intent_system_message(c.messages)>>
    IN  IF ~ok THEN ChatRaised(c, RemoteCall("chat.complete", request, FALSE, ""))
        ELSE [c EXCEPT !.pc = "json_loads", !.intent_query_response = content,
                       !.trace = Append(c.trace,
                                        RemoteCall("chat.complete", request, TRUE, content))]

\* a response that cannot be read is used as the search query itself
json_loads_intent_or_text(c) ==
    LET r == JsonLoads(c.intent_query_response)
    IN  IF ~r.ok \/ r.val.t # "dict" \/ "intent" \notin Keys(r.val)
        THEN [c EXCEPT !.pc = "embed",
                       !.enhanced_search_query = Str(c.intent_query_response)]
        ELSE [c EXCEPT !.pc = "embed", !.enhanced_search_query = Get(r.val, "intent")]

\* enhanced_search_query = json.loads(....message.content)["intent"]
json_loads_intent(c) ==
    LET r == JsonLoads(c.intent_query_response)
    IN  IF ~r.ok \/ r.val.t # "dict" THEN [c EXCEPT !.pc = "raised"]
        ELSE IF "intent" \notin Keys(r.val) THEN [c EXCEPT !.pc = "raised"]
        ELSE [c EXCEPT !.pc = "embed", !.enhanced_search_query = Get(r.val, "intent")]

\* embeddings.embed over the conversation instead of the rewritten query
embeddings_embed_of_messages(c, vector, ok) ==
    IF ~ok THEN ChatRaised(c, RemoteCall("embeddings.embed", c.messages, FALSE, <<>>))
    ELSE [c EXCEPT !.pc = "search", !.embedding = vector,
                   !.trace = Append(c.trace,
                       RemoteCall("embeddings.embed", c.messages, TRUE, vector))]

\* embedding = embeddings.embed(input=enhanced_search_query).data[0].embedding
embeddings_embed(c, vector, ok) ==
    IF ~ok THEN ChatRaised(c, RemoteCall("embeddings.embed", c.enhanced_search_query,
                                         FALSE, <<>>))
    ELSE [c EXCEPT !.pc = "search", !.embedding = vector,
                   !.trace = Append(c.trace,
                       RemoteCall("embeddings.embed", c.enhanced_search_query,
                                  TRUE, vector))]

\* the four fields get_documents keeps of a search result
Document(result) ==
    Dict(<< <<"id", Get(result, "id")>>, <<"content", Get(result, "content")>>,
            <<"title", Get(result, "title")>>, <<"url", Get(result, "url")>> >>)

Documents(search_results) ==
    [i \in 1..Len(search_results) |-> Document(search_results[i])]

\* search_results = search_client.search(...) and the list built from it
search_client_search(c, search_results, ok) ==
    LET vector_query == VectorizedQuery(c.embedding)
        request == [search_text |-> c.enhanced_search_query,
                    vector_queries |-> <<vector_query>>,
                    select |-> <<"id", "content", "title", "url">>,
                    top |-> Top]
    IN  IF ~ok THEN ChatRaised(c, RemoteCall("search_client.search", request, FALSE, <<>>))
        ELSE [c EXCEPT !.pc = "format", !.documents = Documents(search_results),
                       !.trace = Append(c.trace,
                           RemoteCall("search_client.search", request, TRUE,
                                      search_results))]

\* every message keeps the role it came with
format_messages_keeps_roles(c) ==
    LET system_message == get_completion_system_message(c.documents)
        user_messages == [i \in 1..Len(c.messages) |->
                             [role |-> GetOr(c.messages[i], "role", Str("user")).v,
                              content |-> GetOr(c.messages[i], "content", None)]]
    IN  IF \E i \in 1..Len(c.messages) : "content" \notin Keys(c.messages[i])
        THEN [c EXCEPT !.pc = "raised"]
        ELSE [c EXCEPT !.pc = "complete",
                       !.formatted_messages = <<system_message>> \o user_messages]

\* formatted_messages = [system_message] and the for loop that appends
\* UserMessage(message["content"])
format_messages(c) ==
    LET system_message == get_completion_system_message(c.documents)
        user_messages == [i \in 1..Len(c.messages) |->
                             UserMessage(GetOr(c.messages[i], "content", None))]
    IN  IF \E i \in 1..Len(c.messages) : "content" \notin Keys(c.messages[i])
        THEN [c EXCEPT !.pc = "raised"]
        ELSE [c EXCEPT !.pc = "complete",
                       !.formatted_messages = <<system_message>> \o user_messages]

\* response = chat.complete(messages=formatted_messages, max_tokens=1000)
chat_complete(c, answer, ok) ==
    LET request == [messages |-> c.formatted_messages, max_tokens |-> MaxTokens]
    IN  IF ~ok THEN ChatRaised(c, RemoteCall("chat.complete", request, FALSE, ""))
        ELSE [c EXCEPT !.pc = "returned", !.response = answer,
                       !.trace = Append(c.trace,
                                        RemoteCall("chat.complete", request, TRUE, answer))]

InitChat ==
    /\ loop = Locals
    /\ shadow = Locals
    /\ functions = "agent_functions"
    /\ call = NoCall
    /\ \E messages \in Conversations : chat = [ChatLocals EXCEPT !.messages = messages]
    /\ remote = NoRemote

IntentComplete ==
    /\ chat.pc = "intent"
    /\ \E content \in IntentContents, ok \in BOOLEAN :
          chat' = intent_complete(chat, content, ok)
    /\ UNCHANGED <<loop, shadow, functions, call, remote>>

JsonLoadsIntent ==
    /\ chat.pc = "json_loads"
    /\ chat' = json_loads_intent(chat)
    /\ UNCHANGED <<loop, shadow, functions, call, remote>>

EmbeddingsEmbed ==
    /\ chat.pc = "embed"
    /\ \E vector \in Embeddings, ok \in BOOLEAN :
          chat' = embeddings_embed(chat, vector, ok)
    /\ UNCHANGED <<loop, shadow, functions, call, remote>>

SearchClientSearch ==
    /\ chat.pc = "search"
    /\ \E search_results \in SearchResults, ok \in BOOLEAN :
          chat' = search_client_search(chat, search_results, ok)
    /\ UNCHANGED <<loop, shadow, functions, call, remote>>

FormatMessages ==
    /\ chat.pc = "format"
    /\ chat' = format_messages(chat)
    /\ UNCHANGED <<loop, shadow, functions, call, remote>>

ChatComplete ==
    /\ chat.pc = "complete"
    /\ \E answer \in Answers, ok \in BOOLEAN :
          chat' = chat_complete(chat, answer, ok)
    /\ UNCHANGED <<loop, shadow, functions, call, remote>>

NextChat ==
    \/ IntentComplete
    \/ JsonLoadsIntent
    \/ EmbeddingsEmbed
    \/ SearchClientSearch
    \/ FormatMessages
    \/ ChatComplete

SpecChat == InitChat /\ [][NextChat]_vars

(***************************************************************************)
(* The loop against a service that keeps a run in requires_action until    *)
(* one submission answers every pending call id exactly once.  The run of  *)
(* the service:                                                            *)
(*   status      the status get_run reports                                *)
(*   tool_calls  the pending calls while the status is requires_action     *)
(*   rounds      how often the run has entered requires_action             *)
(*   answered    how often it has left requires_action by a submission     *)
(***************************************************************************)
RunOf(r) ==
    IF r.status = "requires_action"
    THEN Run(r.status, "SubmitToolOutputsAction", r.tool_calls)
    ELSE Run(r.status, "None", <<>>)

\* the submission answers every pending call id exactly once, and no other
AnswersAll(tool_calls, outputs) ==
    /\ \A n \in 1..Len(tool_calls) :
          Cardinality({m \in 1..Len(outputs) :
                          outputs[m].tool_call_id = tool_calls[n].id}) = 1
    /\ \A m \in 1..Len(outputs) :
          \E n \in 1..Len(tool_calls) : outputs[m].tool_call_id = tool_calls[n].id

\* what the service does with a submission
remote_submit(r, outputs) ==
    IF r.status = "requires_action" /\ AnswersAll(r.tool_calls, outputs)
    THEN [r EXCEPT !.status = "in_progress", !.tool_calls = <<>>,
                   !.answered = r.answered + 1]
    ELSE r

\* what the service does with a cancel request
remote_cancel(r) ==
    IF r.status \in Active THEN [r EXCEPT !.status = "cancelled", !.tool_calls = <<>>]
    ELSE r

\* the steps the run takes by itself
RunSteps(r) ==
    IF r.status = "queued" THEN {[r EXCEPT !.status = "in_progress"]}
    ELSE IF r.status = "in_progress"
    THEN {[r EXCEPT !.status = st] : st \in {"completed", "failed"}}
         \cup (IF r.rounds < MaxPolls
               THEN {[r EXCEPT !.status = "requires_action", !.tool_calls = b,
                               !.rounds = r.rounds + 1] : b \in Batches}
               ELSE {})
    ELSE {}

InitRemote ==
    /\ loop = Locals
    /\ shadow = Locals
    /\ functions = "agent_functions"
    /\ call = NoCall
    /\ chat = NoChat
    /\ remote = NoRemote

RemoteCreateRun ==
    /\ loop.pc = "create_run"
    /\ \E ok \in BOOLEAN :
          /\ remote' = IF ok THEN [remote EXCEPT !.status = "queued"] ELSE remote
          /\ loop' = create_run(loop, RunOf(remote'), ok)
    /\ UNCHANGED <<shadow, functions, call, chat>>

RemoteProgress ==
    /\ remote' \in RunSteps(remote)
    /\ UNCHANGED <<loop, shadow, functions, call, chat>>

RemoteGetRun ==
    /\ loop.pc = "get_run"
    /\ NumPolls(loop) < MaxPolls
    /\ \E ok \in BOOLEAN : loop' = get_run(loop, RunOf(remote), ok)
    /\ UNCHANGED <<shadow, functions, call, chat, remote>>

RemoteCancelRun ==
    /\ loop.pc = "cancel_run"
    /\ \E ok \in BOOLEAN :
          /\ loop' = cancel_run(loop, ok)
          /\ remote' = IF ok THEN remote_cancel(remote) ELSE remote
    /\ UNCHANGED <<shadow, functions, call, chat>>

RemoteSubmitToolOutputs ==
    /\ loop.pc = "submit_tool_outputs"
    /\ \E ok \in BOOLEAN :
          /\ loop' = submit_tool_outputs_to_run(loop, ok)
          /\ remote' = IF ok THEN remote_submit(remote, loop.tool_outputs) ELSE remote
    /\ UNCHANGED <<shadow, functions, call, chat>>

NextRemote ==
    \/ RemoteCreateRun
    \/ RemoteProgress
    \/ WhileTest
    \/ RemoteGetRun
    \/ RemoteCancelRun
    \/ ForToolCall
    \/ RemoteSubmitToolOutputs

SpecRemote == InitRemote /\ [][NextRemote]_vars

(***************************************************************************)
(* The loop as it stands in either notebook.  In                           *)
(* 03-azure-ai-agents-knowledge-tools.ipynb (lines 1771-1810) the body of  *)
(* the while statement begins with time.sleep(1); in                       *)
(* 04-azure-ai-agents-action-tools.ipynb it begins with the poll.  The     *)
(* statements that follow are the same, and so are the registered          *)
(* functions.  Here the loop sleeps before a poll or does not.             *)
(***************************************************************************)
\* time.sleep(1)
time_sleep(l) == [l EXCEPT !.pc = "slept"]

Sleep ==
    /\ loop.pc = "get_run"
    /\ loop' = time_sleep(loop)
    /\ UNCHANGED <<shadow, functions, call, chat, remote>>

GetRunSlept ==
    /\ loop.pc = "slept"
    /\ NumPolls(loop) < MaxPolls
    /\ \E resp \in Responses, ok \in BOOLEAN : loop' = get_run(loop, resp, ok)
    /\ UNCHANGED <<shadow, functions, call, chat, remote>>

NextNotebooks ==
    \/ CreateRun
    \/ WhileTest
    \/ Sleep
    \/ GetRun
    \/ GetRunSlept
    \/ CancelRun
    \/ ForToolCall
    \/ SubmitToolOutputs

SpecNotebooks == Init /\ [][NextNotebooks]_vars

(***************************************************************************)
(* The loop without a bound on its polls.  The record of what the loop     *)
(* did is not kept, so that the loop may run forever within finitely many  *)
(* states; the steps are those of the loop above.  The loop takes its      *)
(* next step whenever it has one: a remote call and a function call        *)
(* return, with a result or with an exception.                             *)
(***************************************************************************)
Forget(l) == [l EXCEPT !.trace = <<>>]

InitLive ==
    /\ loop = Locals
    /\ shadow = Locals
    /\ functions = "agent_functions"
    /\ call = NoCall
    /\ chat = NoChat
    /\ remote = NoRemote

LiveCreateRun ==
    /\ loop.pc = "create_run"
    /\ \E resp \in CreateResponses, ok \in BOOLEAN :
          loop' = Forget(create_run(loop, resp, ok))
    /\ UNCHANGED <<shadow, functions, call, chat, remote>>

LiveGetRun ==
    /\ loop.pc = "get_run"
    /\ \E resp \in Responses, ok \in BOOLEAN : loop' = Forget(get_run(loop, resp, ok))
    /\ UNCHANGED <<shadow, functions, call, chat, remote>>

LiveCancelRun ==
    /\ loop.pc = "cancel_run"
    /\ \E ok \in BOOLEAN : loop' = Forget(cancel_run(loop, ok))
    /\ UNCHANGED <<shadow, functions, call, chat, remote>>

LiveForToolCall ==
    /\ loop.pc = "for"
    /\ loop' = Forget(for_tool_call(loop, functions))
    /\ UNCHANGED <<shadow, functions, call, chat, remote>>

LiveSubmitToolOutputs ==
    /\ loop.pc = "submit_tool_outputs"
    /\ \E ok \in BOOLEAN : loop' = Forget(submit_tool_outputs_to_run(loop, ok))
    /\ UNCHANGED <<shadow, functions, call, chat, remote>>

NextLive ==
    \/ LiveCreateRun
    \/ WhileTest
    \/ LiveGetRun
    \/ LiveCancelRun
    \/ LiveForToolCall
    \/ LiveSubmitToolOutputs

SpecLive == InitLive /\ [][NextLive]_vars /\ WF_vars(NextLive)

(***************************************************************************)
(* Reading the trace.                                                      *)
(***************************************************************************)
T == loop.trace

RemoteOps == {"create_run", "get_run", "submit_tool_outputs", "cancel_run"}

\* the polls that returned a run
IsPoll(e) == e.op = "get_run" /\ e.ok
PollsOf(t) == {i \in 1..Len(t) : IsPoll(t[i])}

\* the poll of the iteration event j belongs to (0 before the first poll)
PollBefore(t, j) ==
    LET P == {i \in PollsOf(t) : i <= j}
    IN  IF P = {} THEN 0 ELSE CHOOSE i \in P : \A q \in P : q <= i

\* the first poll after position i (Len(t) + 1 when there is none)
PollAfter(t, i) ==
    LET P == {j \in PollsOf(t) : j > i}
    IN  IF P = {} THEN Len(t) + 1 ELSE CHOOSE j \in P : \A q \in P : j <= q

\* the events of the iteration that poll i opened
IterationOf(t, i) == (i + 1)..(PollAfter(t, i) - 1)

\* poll i returned action-required with this list of pending calls
AsksFor(e) == IsPoll(e) /\ requires_tool_outputs(e.run)
EmptyAction(e) == AsksFor(e) /\ e.run.tool_calls = <<>>

\* the iteration of poll i has run to its end
IterationOver(l, i) ==
    \/ \E j \in 1..Len(l.trace) : j > i /\ l.trace[j].op = "get_run"
    \/ l.pc \in {"while", "get_run", "done", "raised"}

Submissions(t, J) == {j \in J : t[j].op = "submit_tool_outputs"}
Executions(t, J) == {j \in J : t[j].op = "execute"}

IdsOf(calls) == {calls[i].id : i \in 1..Len(calls)}
OutputIds(outputs) == {outputs[i].tool_call_id : i \in 1..Len(outputs)}

\* the call is a function call and its invocation returns
Succeeds(tool_call) ==
    tool_call.type = "function" /\ ~functions_execute("agent_functions", tool_call).raised

\* the call is a function call and its invocation raises
Fails(tool_call) ==
    tool_call.type = "function" /\ functions_execute("agent_functions", tool_call).raised

RECURSIVE SumLen(_, _)
\* the number of ToolOutputs in the submissions at the positions J
SumLen(t, J) ==
    IF J = {} THEN 0
    ELSE LET j == CHOOSE x \in J : TRUE
         IN  Len(t[j].outputs) + SumLen(t, J \ {j})

SucceedingIds(calls) == {calls[k].id : k \in {n \in 1..Len(calls) : Succeeds(calls[n])}}

(***************************************************************************)
(* C1.  A poll that returns action-required with an empty list of pending  *)
(* tool calls is followed by the cancel request and by nothing else: the   *)
(* loop stands at the cancel request, or has issued it as the last thing   *)
(* it did and has left the loop; it does not poll again and submits        *)
(* nothing.                                                                *)
(***************************************************************************)
C1_EmptyActionCancels ==
    \A i \in 1..Len(T) :
        EmptyAction(T[i]) =>
            IF i = Len(T) THEN loop.pc = "cancel_run"
            ELSE /\ Len(T) = i + 1
                 /\ T[i + 1].op = "cancel_run"
                 /\ loop.pc \in {"done", "raised"}

C1_Witness ==
    /\ Len(T) >= 2
    /\ EmptyAction(T[Len(T) - 1])
    /\ T[Len(T)].op = "cancel_run" /\ T[Len(T)].ok
    /\ loop.pc = "done"

(***************************************************************************)
(* C2.  For every poll that returns action-required with a batch of        *)
(* pending calls, once its iteration is over the number of ToolOutputs     *)
(* submitted for the batch is the number of calls of the batch that were   *)
(* invoked and did not raise, and every submitted output answers such a    *)
(* call: a failed call gets no output, not even an error placeholder.      *)
(***************************************************************************)
C2_OutputsCountSuccessfulCalls ==
    \A i \in PollsOf(T) :
        (AsksFor(T[i]) /\ T[i].run.tool_calls # <<>> /\ IterationOver(loop, i)) =>
            LET S == Submissions(T, IterationOf(T, i))
                ids == SucceedingIds(T[i].run.tool_calls)
            IN  /\ SumLen(T, S) = Cardinality(ids)
                /\ \A j \in S : OutputIds(T[j].outputs) \subseteq ids

C2_Witness ==
    \E i \in PollsOf(T) :
        /\ AsksFor(T[i]) /\ IterationOver(loop, i)
        /\ \E k \in 1..Len(T[i].run.tool_calls) : Fails(T[i].run.tool_calls[k])
        /\ \E j \in Submissions(T, IterationOf(T, i)) : Len(T[j].outputs) = 1

(***************************************************************************)
(* C3.  Every ToolOutput of every submission carries the id of a tool call *)
(* that the poll of the same iteration returned.                           *)
(***************************************************************************)
C3_OutputIdsFromSameBatch ==
    \A j \in 1..Len(T) :
        T[j].op = "submit_tool_outputs" =>
            /\ PollBefore(T, j) # 0
            /\ OutputIds(T[j].outputs) \subseteq IdsOf(T[PollBefore(T, j)].run.tool_calls)

C3_Witness ==
    \E i, j \in 1..Len(T) :
        /\ i < j
        /\ T[i].op = "submit_tool_outputs" /\ T[j].op = "submit_tool_outputs"
        /\ OutputIds(T[i].outputs) \cap OutputIds(T[j].outputs) = {}
        /\ OutputIds(T[j].outputs) # {}

\* the statuses the loop has seen, from create_run on
RECURSIVE StatusesFrom(_, _)
StatusesFrom(t, i) ==
    IF i > Len(t) THEN <<>>
    ELSE (IF t[i].op \in {"create_run", "get_run"} /\ t[i].ok
          THEN <<t[i].run.status>> ELSE <<>>) \o StatusesFrom(t, i + 1)

StatusesSeen(t) == StatusesFrom(t, 1)

\* the run went queued, action-required, completed and the loop has left
Scripted(l) ==
    /\ l.pc = "done"
    /\ StatusesSeen(l.trace) = <<"queued", "requires_action", "completed">>

\* the positions of the outputs for this call id in a submission
OutputsFor(outputs, id) == {n \in 1..Len(outputs) : outputs[n].tool_call_id = id}

(***************************************************************************)
(* C4.  When the statuses seen are queued, action-required, completed and  *)
(* the loop has left, every pending call whose function is registered and  *)
(* does not raise was invoked exactly once, and there is exactly one       *)
(* submission, which holds exactly one ToolOutput for it.                  *)
(***************************************************************************)
C4_ScriptedRunAnswersOnce ==
    Scripted(loop) =>
        \A i \in PollsOf(T) : \A k \in 1..Len(T[i].run.tool_calls) :
            LET tool_call == T[i].run.tool_calls[k]
                S == Submissions(T, 1..Len(T))
            IN  Succeeds(tool_call) =>
                    /\ Cardinality({j \in Executions(T, 1..Len(T)) :
                                       T[j].id = tool_call.id /\ T[j].ok}) = 1
                    /\ Cardinality(S) = 1
                    /\ \A j \in S : Cardinality(OutputsFor(T[j].outputs, tool_call.id)) = 1

C4_Witness ==
    /\ Scripted(loop)
    /\ \E i \in PollsOf(T) :
          /\ Len(T[i].run.tool_calls) = 2
          /\ \A k \in 1..2 : Succeeds(T[i].run.tool_calls[k])
    /\ \E j \in Submissions(T, 1..Len(T)) : Len(T[j].outputs) = 2

(***************************************************************************)
(* C5.  When the single pending call is fetch_weather(location =           *)
(* "Stockholm"), the iteration makes exactly one submission, of exactly    *)
(* one ToolOutput, with the id of that call and a body that is the JSON    *)
(* object {"weather": "Snowy, -5°C"}.                                      *)
(***************************************************************************)
StockholmWeather == Dict(<< <<"weather", Str("Snowy, -5°C")>> >>)

C5_StockholmWeatherOutput ==
    \A i \in PollsOf(T) :
        (AsksFor(T[i]) /\ T[i].run.tool_calls = <<call_weather>> /\ IterationOver(loop, i)) =>
            LET S == Submissions(T, IterationOf(T, i))
            IN  /\ Cardinality(S) = 1
                /\ \A j \in S :
                      /\ Len(T[j].outputs) = 1
                      /\ T[j].outputs[1].tool_call_id = call_weather.id
                      /\ LET body == JsonLoads(T[j].outputs[1].output)
                         IN  body.ok /\ PyEq(body.val, StockholmWeather)

C5_Witness ==
    /\ loop.pc = "done"
    /\ \E i \in PollsOf(T) :
          /\ T[i].run.tool_calls = <<call_weather>>
          /\ \E j \in Submissions(T, IterationOf(T, i)) :
                T[j].ok /\ T[j].outputs[1].output = "{\"weather\": \"Snowy, -5\\u00b0C\"}"

(***************************************************************************)
(* C6.  A call whose invocation fails is skipped and the batch goes on:    *)
(* of the calls the for loop has passed, every function call has been      *)
(* invoked, in the order of the list; the failure does not end the loop;   *)
(* and once the iteration is over, the outputs of all the calls that       *)
(* succeeded have been submitted.                                          *)
(***************************************************************************)
\* the ids of the function calls among the first n calls, in order
RECURSIVE FunctionIds(_, _, _)
FunctionIds(calls, n, k) ==
    IF k > n THEN <<>>
    ELSE (IF calls[k].type = "function" THEN <<calls[k].id>> ELSE <<>>)
         \o FunctionIds(calls, n, k + 1)

\* the ids of the invocations among the events from position j on
RECURSIVE ExecutedIds(_, _)
ExecutedIds(t, j) ==
    IF j > Len(t) \/ t[j].op = "get_run" THEN <<>>
    ELSE (IF t[j].op = "execute" THEN <<t[j].id>> ELSE <<>>) \o ExecutedIds(t, j + 1)

\* the number of calls of the batch of poll i the for loop has passed
Passed(l, i) ==
    IF IterationOver(l, i) \/ l.pc = "submit_tool_outputs"
    THEN Len(l.trace[i].run.tool_calls)
    ELSE l.k - 1

C6_FailedCallIsSkipped ==
    \A i \in PollsOf(T) :
        (AsksFor(T[i]) /\ T[i].run.tool_calls # <<>>) =>
            LET calls == T[i].run.tool_calls
                S == Submissions(T, IterationOf(T, i))
            IN  /\ ExecutedIds(T, i + 1) = FunctionIds(calls, Passed(loop, i), 1)
                /\ (Len(T) > i /\ T[Len(T)].op = "print_error") => ~Ended(loop)
                /\ IterationOver(loop, i) =>
                      \A k \in 1..Len(calls) :
                          Succeeds(calls[k]) =>
                              \E j \in S : calls[k].id \in OutputIds(T[j].outputs)

C6_Witness ==
    \E i \in PollsOf(T) :
        /\ Len(T[i].run.tool_calls) = 2
        /\ Fails(T[i].run.tool_calls[1])
        /\ Succeeds(T[i].run.tool_calls[2])
        /\ \E j \in Submissions(T, IterationOf(T, i)) :
              T[j].ok /\ OutputIds(T[j].outputs) = {T[i].run.tool_calls[2].id}
        /\ \E j \in PollsOf(T) : j > i

(***************************************************************************)
(* C7.  The loop does not read the results of the functions.  Run with     *)
(* the same answers of the service and functions that fail on the same     *)
(* calls but return other values, it stands at the same place and has      *)
(* done the same things: the same remote operations with the same          *)
(* outcome, the same invocations, the same call ids in the same            *)
(* submissions.  Only the bodies of the outputs differ.                    *)
(***************************************************************************)
RECURSIVE IdSeq(_, _)
IdSeq(outputs, n) ==
    IF n > Len(outputs) THEN <<>>
    ELSE <<outputs[n].tool_call_id>> \o IdSeq(outputs, n + 1)

\* an event without the bodies of its outputs
Skeleton(e) == [e EXCEPT !.outputs = IdSeq(e.outputs, 1)]

SkeletonOf(t) == [i \in 1..Len(t) |-> Skeleton(t[i])]

C8_ExitOnlyOnTerminalStatus == loop.pc = "done" => loop.run.status \notin Active

(***************************************************************************)
(* C8, amended.  When the loop has left without an error, either the last  *)
(* status it got from the service is none of queued, in_progress,          *)
(* requires_action, or it has left by the break after cancelling a run     *)
(* whose action-required state listed no tool calls, and the last status   *)
(* it got is requires_action.                                              *)
(***************************************************************************)
LeftByCancel(l) ==
    /\ Len(l.trace) >= 2
    /\ l.trace[Len(l.trace)].op = "cancel_run" /\ l.trace[Len(l.trace)].ok
    /\ EmptyAction(l.trace[Len(l.trace) - 1])
    /\ l.run.status = "requires_action"

C8_ExitOnTerminalStatusOrCancel ==
    loop.pc = "done" => (loop.run.status \notin Active \/ LeftByCancel(loop))

C8_Witness ==
    /\ loop.pc = "done"
    /\ NumPolls(loop) = 2
    /\ loop.run.status \in Terminal
    /\ StatusesSeen(T)[2] = "in_progress"

(***************************************************************************)
(* C9.  Once a poll has returned a status that is none of queued,          *)
(* in_progress, requires_action, the loop does nothing more: that poll is  *)
(* the last thing it did (no poll, submission, cancellation or invocation  *)
(* follows) and it is leaving or has left.                                 *)
(***************************************************************************)
C9_TerminalStatusIsAbsorbing ==
    \A i \in PollsOf(T) :
        T[i].run.status \notin Active => (i = Len(T) /\ loop.pc \in {"while", "done"})

C9_Witness ==
    /\ loop.pc = "done"
    /\ Len(T) >= 1 /\ IsPoll(T[Len(T)])
    /\ T[Len(T)].run.status = "expired"
    /\ NumPolls(loop) < MaxPolls

(***************************************************************************)
(* C10.  A remote operation that fails ends the loop with that error: it   *)
(* is the last thing the loop did (no retry, no further remote operation)  *)
(* and the loop has ended by the error.  Nothing else ends the loop by an  *)
(* error: a function that raises is handled inside the for loop.           *)
(***************************************************************************)
C10_RemoteFailureEndsLoop ==
    /\ \A i \in 1..Len(T) :
          (T[i].op \in RemoteOps /\ ~T[i].ok) => (i = Len(T) /\ loop.pc = "raised")
    /\ loop.pc = "raised" =>
          (Len(T) >= 1 /\ T[Len(T)].op \in RemoteOps /\ ~T[Len(T)].ok)

C10_Witness ==
    /\ loop.pc = "raised"
    /\ T[Len(T)].op = "submit_tool_outputs" /\ ~T[Len(T)].ok
    /\ \E j \in 1..Len(T) : T[j].op = "print_error"
    /\ NumPolls(loop) < MaxPolls

(***************************************************************************)
(* The functions of cell 3.                                                *)
(***************************************************************************)
\* the decoded result of the call, once it has returned
Decoded == JsonLoads(call.result)

HasReturned(function) == call.pc = "returned" /\ call.function = function

\* an object with exactly these keys, each written once
IsObject(r, keys) ==
    r.ok /\ r.val.t = "dict" /\ Keys(r.val) = keys /\ Len(r.val.v) = Cardinality(keys)

\* C11: fetch_weather is total: for every location string it returns a
\* JSON string that encodes an object with the single key "weather"; the
\* value is the table entry for New York, London, Tokyo and Stockholm and
\* the message "Weather data not available for this location." for every
\* other location.
C11_FetchWeatherIsTotal ==
    HasReturned("fetch_weather") =>
        /\ IsObject(Decoded, {"weather"})
        /\ Get(Decoded.val, "weather") =
               IF call.location \in {"New York", "London", "Tokyo", "Stockholm"}
               THEN Get(mock_weather_data, call.location)
               ELSE Str("Weather data not available for this location.")

\* fetch_weather has returned for a location that is not in the table
C11_Witness ==
    /\ HasReturned("fetch_weather")
    /\ call.location = "Paris"
    /\ call.result = "{\"weather\": \"Weather data not available for this location.\"}"

\* the locations of the network table
NetworkLocations == {"Stockholm", "Gothenburg", "New York", "London"}

\* C12: check_network_status, called with a location of the network table
\* and no service type (None, or the empty string), returns the status of
\* all services of that location (5G, 4G, VoLTE) together with the location
\* and the timestamp, and no error field.
C12_AllServicesWithoutServiceType ==
    (/\ HasReturned("check_network_status")
     /\ call.location \in NetworkLocations
     /\ call.service_type \in {None, Str("")}) =>
        LET d == Decoded
        IN  /\ IsObject(d, {"location", "services", "timestamp"})
            /\ Get(d.val, "location") = Str(call.location)
            /\ Get(d.val, "services").t = "dict"
            /\ Keys(Get(d.val, "services")) = {"5G", "4G", "VoLTE"}
            /\ PyEq(Get(d.val, "services"), Get(network_data, call.location))
            /\ Get(d.val, "timestamp") = Str("2025-04-04T10:30:00Z")
            /\ "error" \notin Keys(d.val)

\* check_network_status("New York") has returned the three services
C12_Witness ==
    /\ HasReturned("check_network_status")
    /\ call.location = "New York"
    /\ call.service_type = None
    /\ Decoded.ok
    /\ Get(Get(Decoded.val, "services"), "VoLTE") = Str("Maintenance in progress")

\* the service type is given: a str that is not empty
Specified(service_type) == service_type.t = "str" /\ service_type.v # ""

\* C13: check_network_status tests the location before the service type.
\* A location outside the network table gives the error "Location not
\* found in network database" whatever the service type; a location of the
\* table with a service type gives the status of that service only when
\* the location has it, and the error "Service type ... not available in
\* ..." otherwise.  For every pair of inputs the result is a JSON string.
C13_LocationBeforeServiceType ==
    HasReturned("check_network_status") =>
        LET d == Decoded
            location == call.location
            service_type == call.service_type
        IN  /\ d.ok /\ d.val.t = "dict"
            /\ location \notin NetworkLocations =>
                  /\ IsObject(d, {"error"})
                  /\ Get(d.val, "error") = Str("Location not found in network database")
            /\ (location \in NetworkLocations /\ Specified(service_type)) =>
                  IF service_type.v \in Keys(Get(network_data, location))
                  THEN /\ IsObject(d, {"location", "service", "status", "timestamp"})
                       /\ Get(d.val, "location") = Str(location)
                       /\ Get(d.val, "service") = service_type
                       /\ Get(d.val, "status") =
                              Get(Get(network_data, location), service_type.v)
                       /\ Get(d.val, "timestamp") = Str("2025-04-04T10:30:00Z")
                  ELSE /\ IsObject(d, {"error"})
                       /\ Get(d.val, "error") =
                              Str("Service type " \o service_type.v
                                  \o " not available in " \o location)

\* check_network_status("Paris", "3G"): neither the location nor the
\* service type is known, and the error is the one of the location
C13_Witness ==
    /\ HasReturned("check_network_status")
    /\ call.location = "Paris"
    /\ call.service_type = Str("3G")
    /\ call.result = "{\"error\": \"Location not found in network database\"}"

(***************************************************************************)
(* The retrieval chain.                                                    *)
(***************************************************************************)
ChainOrder ==
    <<"chat.complete", "embeddings.embed", "search_client.search", "chat.complete">>

\* C14: in one call of chat_with_documents the remote calls are issued in
\* the order intent completion, embedding, search, final completion, none
\* of them twice and all four in a call that returns; each is issued only
\* after the one before it has returned, and its input is made from what
\* the one before it returned: the embedding is taken of the intent the
\* first completion wrote, the search uses that intent and the vector the
\* embedding returned, and the final completion carries the documents the
\* search returned.
C14_ChainInFixedOrder ==
    chat.pc # "idle" =>
        LET t == chat.trace
            n == Len(t)
        IN  /\ n <= 4
            /\ \A i \in 1..n : t[i].op = ChainOrder[i]
            /\ \A i \in 1..(n - 1) : t[i].ok
            /\ chat.pc = "returned" => n = 4 /\ t[4].ok
            /\ n >= 2 =>
                  LET r == JsonLoads(t[1].output)
                  IN  r.ok /\ t[2].input = Get(r.val, "intent")
            /\ n >= 3 =>
                  /\ t[3].input.search_text = t[2].input
                  /\ t[3].input.vector_queries = <<VectorizedQuery(t[2].output)>>
            /\ n >= 4 =>
                  t[4].input.messages[1] =
                      get_completion_system_message(Documents(t[3].output))

\* a call that has returned after finding two documents
C14_Witness ==
    /\ chat.pc = "returned"
    /\ Len(chat.trace) = 4
    /\ Len(chat.trace[3].output) = 2
    /\ chat.trace[2].input = Str("training of llms")

(***************************************************************************)
(* The loop, continued.                                                    *)
(***************************************************************************)
\* the next get_run after position i, returned or not (Len(t) + 1 when
\* there is none)
GetRunAfter(t, i) ==
    LET P == {j \in (i + 1)..Len(t) : t[j].op = "get_run"}
    IN  IF P = {} THEN Len(t) + 1 ELSE CHOOSE j \in P : \A q \in P : j <= q

\* poll i returned action-required with calls of which none succeeds
NothingToCollect(e) ==
    /\ AsksFor(e)
    /\ e.run.tool_calls # <<>>
    /\ \A k \in 1..Len(e.run.tool_calls) : ~Succeeds(e.run.tool_calls[k])

\* C15: the loop never submits an empty batch.  When no ToolOutput was
\* collected from a non-empty batch (every call failed or was passed
\* over), the iteration makes no submission and no cancellation, and the
\* loop goes on polling instead of leaving.
C15_NoEmptySubmission ==
    /\ \A j \in 1..Len(T) : T[j].op = "submit_tool_outputs" => T[j].outputs # <<>>
    /\ \A i \in PollsOf(T) :
          NothingToCollect(T[i]) =>
              /\ \A j \in (i + 1)..(GetRunAfter(T, i) - 1) :
                    T[j].op \in {"execute", "print_error"}
              /\ GetRunAfter(T, i) > Len(T) =>
                    /\ loop.pc \in {"for", "while", "get_run"}
                    /\ loop.pc = "while" => while_test(loop).pc = "get_run"

\* two calls that both fail, and the next poll after them
C15_Witness ==
    \E i \in PollsOf(T) :
        /\ NothingToCollect(T[i])
        /\ Len(T[i].run.tool_calls) = 2
        /\ \A k \in 1..2 : Fails(T[i].run.tool_calls[k])
        /\ PollAfter(T, i) <= Len(T)

\* the ids of the invocations that returned among the events from j on
RECURSIVE ReturnedIds(_, _)
ReturnedIds(t, j) ==
    IF j > Len(t) \/ t[j].op = "get_run" THEN <<>>
    ELSE (IF t[j].op = "execute" /\ t[j].ok THEN <<t[j].id>> ELSE <<>>)
         \o ReturnedIds(t, j + 1)

\* poll i returned action-required with pending calls
HasBatch(e) == AsksFor(e) /\ e.run.tool_calls # <<>>

\* C16: one iteration makes at most one submission; it is made only after
\* every pending call of the batch has been attempted and it carries all
\* the ToolOutputs collected in that iteration: outputs are never
\* submitted one by one or in parts.
C16_OneSubmissionPerIteration ==
    \A i \in PollsOf(T) :
        HasBatch(T[i]) =>
            LET calls == T[i].run.tool_calls
                last == GetRunAfter(T, i) - 1
                S == Submissions(T, (i + 1)..last)
            IN  /\ Cardinality(S) <= 1
                /\ \A j \in S :
                      /\ j = last
                      /\ ExecutedIds(T, i + 1) = FunctionIds(calls, Len(calls), 1)
                      /\ IdSeq(T[j].outputs, 1) = ReturnedIds(T, i + 1)

\* both calls of a batch invoked, then one submission with both outputs
C16_Witness ==
    \E i \in PollsOf(T) :
        /\ HasBatch(T[i])
        /\ Len(T) = i + 3
        /\ T[i + 1].op = "execute" /\ T[i + 1].ok
        /\ T[i + 2].op = "execute" /\ T[i + 2].ok
        /\ T[i + 3].op = "submit_tool_outputs" /\ T[i + 3].ok
        /\ Len(T[i + 3].outputs) = 2

\* the ids of the calls that succeed among the first n calls, in order
RECURSIVE SucceedingIdSeq(_, _, _)
SucceedingIdSeq(calls, n, k) ==
    IF k > n THEN <<>>
    ELSE (IF Succeeds(calls[k]) THEN <<calls[k].id>> ELSE <<>>)
         \o SucceedingIdSeq(calls, n, k + 1)

IsPrefix(a, b) == Len(a) <= Len(b) /\ SubSeq(b, 1, Len(a)) = a

\* C17: the pending calls are invoked one at a time in the order of the
\* list, each one finished before the next begins: when the for loop
\* stands at call k, the calls before k have been invoked, in order, and
\* the outputs of those that returned are collected, and no other.  The
\* ToolOutputs of a submitted batch stand in the order of their calls.
C17_CallsAndOutputsInListOrder ==
    \A i \in PollsOf(T) :
        HasBatch(T[i]) =>
            LET calls == T[i].run.tool_calls
                last == GetRunAfter(T, i) - 1
            IN  /\ IsPrefix(ExecutedIds(T, i + 1), FunctionIds(calls, Len(calls), 1))
                /\ (last = Len(T) /\ loop.pc = "for") =>
                      /\ ExecutedIds(T, i + 1) = FunctionIds(calls, loop.k - 1, 1)
                      /\ IdSeq(loop.tool_outputs, 1) = SucceedingIdSeq(calls, loop.k - 1, 1)
                /\ \A j \in Submissions(T, (i + 1)..last) :
                      IdSeq(T[j].outputs, 1) = SucceedingIdSeq(calls, Len(calls), 1)

\* the answers to fetch_weather and check_network_status submitted in
\* the order the calls were listed in
C17_Witness ==
    \E j \in 1..Len(T) :
        /\ T[j].op = "submit_tool_outputs" /\ T[j].ok
        /\ T[j].run.tool_calls = <<call_weather, call_network>>
        /\ IdSeq(T[j].outputs, 1) = <<"call_2", "call_5">>

Cancellations(t) == {j \in 1..Len(t) : t[j].op = "cancel_run"}

\* C20: the cancel request is issued only in an iteration whose poll
\* returned action-required with an empty list of tool calls, right after
\* that poll; it is issued at most once in a run, nothing follows it, so
\* that no submission stands in the same iteration; and the loop heads
\* for it in no other situation.
C20_CancelOnlyOnEmptyAction ==
    /\ Cardinality(Cancellations(T)) <= 1
    /\ \A j \in Cancellations(T) :
          /\ j >= 2 /\ EmptyAction(T[j - 1])
          /\ j = Len(T)
          /\ Submissions(T, (PollBefore(T, j) + 1)..Len(T)) = {}
    /\ loop.pc = "cancel_run" => (Len(T) >= 1 /\ EmptyAction(T[Len(T)]))

\* a first iteration that submitted outputs, then a poll with an empty
\* list and the cancellation
C20_Witness ==
    /\ Cancellations(T) = {Len(T)}
    /\ T[Len(T)].ok
    /\ \E j \in Submissions(T, 1..Len(T)) : T[j].ok /\ j < PollBefore(T, Len(T))

\* what functions.execute gives for the call with the functions in use
ResultOf(tool_call) == functions_execute(functions, tool_call)

\* the bodies of the outputs submitted under the id
BodiesFor(outputs, id) ==
    [n \in OutputsFor(outputs, id) |-> outputs[n].output]

\* the for loop has passed position k of the batch of poll i
PassedCall(l, i, k) == k <= Passed(l, i)

\* C18: when an invocation succeeds, the ToolOutput recorded for the call
\* carries the result unchanged if the result is a string, and its JSON
\* encoding otherwise (a text json.loads reads back as the result).  If
\* the encoding fails, the call is handled like a failed invocation: the
\* error is printed, no output is recorded for the call, and the loop
\* goes on with the remaining calls.
C18_OutputIsResultOrItsEncoding ==
    \A i \in PollsOf(T) :
        HasBatch(T[i]) =>
            LET calls == T[i].run.tool_calls
                last == GetRunAfter(T, i) - 1
                Returning == {k \in 1..Len(calls) :
                                 /\ calls[k].type = "function"
                                 /\ ~ResultOf(calls[k]).raised}
            IN  /\ \A k \in Returning, j \in Submissions(T, (i + 1)..last) :
                      LET value == ResultOf(calls[k]).value
                          bodies == BodiesFor(T[j].outputs, calls[k].id)
                      IN  IF IsStr(value)
                          THEN \E n \in DOMAIN bodies :
                                  DOMAIN bodies = {n} /\ bodies[n] = value.v
                          ELSE IF Serializable(value)
                          THEN \E n \in DOMAIN bodies :
                                  /\ DOMAIN bodies = {n}
                                  /\ bodies[n] = JsonDumps(value)
                                  /\ JsonLoads(bodies[n]).ok
                                  /\ PyEq(JsonLoads(bodies[n]).val, value)
                          ELSE DOMAIN bodies = {}
                /\ \A k \in Returning :
                      (PassedCall(loop, i, k) /\ ~Serializable(ResultOf(calls[k]).value)) =>
                          \E j \in (i + 1)..(last - 1) :
                              /\ T[j] = Event("execute", TRUE, T[i].run, <<>>, calls[k].id)
                              /\ T[j + 1] = Event("print_error", TRUE, T[i].run, <<>>,
                                                  calls[k].id)
                /\ ExecutedIds(T, i + 1) = FunctionIds(calls, Passed(loop, i), 1)
                /\ (last = Len(T) /\ T[Len(T)].op = "print_error") => ~Ended(loop)

\* fetch_weather returned a dict that holds a set, which json.dumps does
\* not encode; the error was printed, the loop went on to
\* check_network_status and submitted its answer only
C18_Witness ==
    /\ functions = "unserializable"
    /\ \E j \in 3..Len(T) :
          /\ T[j].op = "submit_tool_outputs" /\ T[j].ok
          /\ T[j].run.tool_calls = <<call_weather, call_network>>
          /\ T[j - 2] = Event("print_error", TRUE, T[j].run, <<>>, "call_2")
          /\ T[j].outputs = <<ToolOutput("call_5", "{\"status\": \"mock\"}")>>

AllSucceed(calls) == \A k \in 1..Len(calls) : Succeeds(calls[k])

\* the polls whose batch was invoked successfully call by call and
\* submitted
AnsweredPolls(t) ==
    {i \in PollsOf(t) :
        /\ HasBatch(t[i])
        /\ AllSucceed(t[i].run.tool_calls)
        /\ \E j \in Submissions(t, (i + 1)..(GetRunAfter(t, i) - 1)) : t[j].ok}

\* the polls whose batch holds a call that fails or is passed over
PartialPolls(t) ==
    {i \in PollsOf(t) : HasBatch(t[i]) /\ ~AllSucceed(t[i].run.tool_calls)}

\* C19: with a service that lets a run leave action-required only once
\* every pending call id has received exactly one ToolOutput, the run gets
\* past action-required after the loop's submission if and only if every
\* call of the polled batch was invoked successfully: the run has left
\* action-required by a submission as often as the loop has submitted the
\* outputs of such a batch, and a batch in which a call failed or was
\* passed over is still pending, whatever the loop has done since.
C19_RunProceedsIffAllCallsSucceed ==
    /\ remote.answered = Cardinality(AnsweredPolls(T))
    /\ \A i \in PartialPolls(T) :
          /\ remote.status = "requires_action"
          /\ remote.tool_calls = T[i].run.tool_calls
    /\ remote.status = "requires_action" => remote.rounds = remote.answered + 1

\* both calls answered, the run completed and the loop has seen it
C19_Witness ==
    /\ remote.answered = 1
    /\ remote.status = "completed"
    /\ loop.pc = "done"
    /\ \E i \in AnsweredPolls(T) : Len(T[i].run.tool_calls) = 2

(***************************************************************************)
(* The iterations of the loop.                                             *)
(***************************************************************************)
\* the last get_run at or before position j, returned or not (0 when
\* there is none)
GetRunBefore(t, j) ==
    LET P == {i \in 1..j : t[i].op = "get_run"}
    IN  IF P = {} THEN 0 ELSE CHOOSE i \in P : \A q \in P : q <= i

\* the loop is about to poll: at get_run, or after the sleep before it
AtPoll == {"get_run", "slept"}

\* the loop is on its way to the next poll
HeadsForPoll(l) ==
    /\ l.pc \in {"while"} \cup AtPoll
    /\ l.pc = "while" => while_test(l).pc = "get_run"

\* the poll returned queued or in_progress
Waiting(e) == IsPoll(e) /\ e.run.status \in {"queued", "in_progress"}

\* C21: functions are invoked and ToolOutputs are submitted only in an
\* iteration whose poll returned action-required.  In an iteration whose
\* poll returned queued or in_progress the loop does nothing but go back
\* to the poll: no invocation, no submission, no cancellation.
C21_ActsOnlyOnActionRequired ==
    /\ \A j \in 1..Len(T) :
          T[j].op \in {"execute", "submit_tool_outputs"} =>
              LET i == GetRunBefore(T, j)
              IN  i # 0 /\ IsPoll(T[i]) /\ T[i].run.status = "requires_action"
    /\ \A i \in PollsOf(T) :
          Waiting(T[i]) =>
              IF i = Len(T) THEN HeadsForPoll(loop) ELSE T[i + 1].op = "get_run"

\* a poll that returned in_progress, then one that returned two calls,
\* which were invoked and answered
C21_Witness ==
    /\ Len(T) = 6
    /\ Waiting(T[2]) /\ T[2].run.status = "in_progress"
    /\ HasBatch(T[3])
    /\ T[4].op = "execute" /\ T[5].op = "execute"
    /\ T[6].op = "submit_tool_outputs" /\ T[6].ok

\* what the loop does in an iteration besides the poll
ActOps == {"execute", "print_error", "submit_tool_outputs", "cancel_run"}

\* every act stands after the poll of its iteration and is made on the
\* run and the pending calls that poll returned
PollFirst ==
    \A j \in 1..Len(T) :
        T[j].op \in ActOps =>
            LET i == GetRunBefore(T, j)
            IN  /\ i # 0 /\ IsPoll(T[i])
                /\ T[j].run = T[i].run
                /\ T[j].op \in {"execute", "print_error"} =>
                      T[j].id \in IdsOf(T[i].run.tool_calls)
                /\ T[j].op = "submit_tool_outputs" =>
                      OutputIds(T[j].outputs) \subseteq IdsOf(T[i].run.tool_calls)
                /\ T[j].op = "cancel_run" => T[i].run.tool_calls = <<>>

\* inside an iteration the loop holds what the poll of the iteration gave
HoldsLastPoll ==
    loop.pc \in {"for", "cancel_run", "submit_tool_outputs"} =>
        LET i == GetRunBefore(T, Len(T))
        IN  /\ i # 0 /\ IsPoll(T[i])
            /\ loop.run = T[i].run
            /\ loop.tool_calls = T[i].run.tool_calls

\* a poll that asks for function calls is acted on before the next poll
ActsBeforeNextPoll ==
    (/\ Len(T) >= 1 /\ HasBatch(T[Len(T)])
     /\ \E k \in 1..Len(T[Len(T)].run.tool_calls) :
           T[Len(T)].run.tool_calls[k].type = "function") =>
        loop.pc = "for"

\* the last thing the loop did is one of ops, it returned, and the loop
\* has left the body of the iteration
Acted(l, ops) ==
    /\ Len(l.trace) >= 1
    /\ l.trace[Len(l.trace)].op \in ops
    /\ l.trace[Len(l.trace)].op \in RemoteOps => l.trace[Len(l.trace)].ok
    /\ l.pc \notin {"for", "submit_tool_outputs"}

(***************************************************************************)
(* C22.  As claimed: every iteration begins with its one poll; every       *)
(* invocation, submission and cancellation stands after that poll and is   *)
(* made on the status and the pending calls it returned; and after         *)
(* acting, whatever the act was, the loop goes back to the poll.           *)
(***************************************************************************)
C22_PollThenActThenPoll ==
    /\ PollFirst
    /\ HoldsLastPoll
    /\ ActsBeforeNextPoll
    /\ Acted(loop, ActOps) => HeadsForPoll(loop)

(***************************************************************************)
(* C22, amended.  Every iteration begins with its one poll; every          *)
(* invocation, submission and cancellation stands after that poll and is   *)
(* made on the status and the pending calls it returned.  After the        *)
(* invocations and the submission the loop goes back to the poll; after    *)
(* the cancellation it leaves without another poll.                        *)
(***************************************************************************)
C22_PollThenActThenPollUnlessCancelled ==
    /\ PollFirst
    /\ HoldsLastPoll
    /\ ActsBeforeNextPoll
    /\ Acted(loop, ActOps \ {"cancel_run"}) => HeadsForPoll(loop)
    /\ Acted(loop, {"cancel_run"}) => loop.pc = "done"

\* an iteration that invoked fetch_weather and submitted its answer, and
\* the poll of the next iteration
C22_Witness ==
    /\ Len(T) = 5
    /\ T[2].run.tool_calls = <<call_weather>>
    /\ T[3].op = "execute"
    /\ T[4].op = "submit_tool_outputs" /\ T[4].ok
    /\ IsPoll(T[5]) /\ T[5].run.status = "completed"

(***************************************************************************)
(* Leaving the loop, and not leaving it.                                   *)
(***************************************************************************)
\* the loop holds a status that is none of queued, in_progress,
\* requires_action: create_run or a poll has returned it
HoldsTerminalStatus == loop.run.status \in Terminal

\* C23: once the service has returned a terminal status (to a poll, or to
\* create_run), the loop leaves: with every remote call and every function
\* call returning and the loop taking its steps, it stands after the while
\* statement eventually.
C23_TerminalStatusLeadsToExit == HoldsTerminalStatus ~> (loop.pc = "done")

\* the loop has left after a poll that returned completed, in an iteration
\* that followed one with a batch
C23_Witness ==
    /\ loop.pc = "done"
    /\ loop.run.status = "completed"
    /\ loop.tool_calls = <<call_weather, call_network>>
    /\ Len(loop.tool_outputs) = 2

\* the service keeps the run going: the statuses the loop gets are among
\* queued, in_progress, requires_action, an action-required state always
\* lists calls, and the remote calls return without an exception
RunStaysActive ==
    /\ loop.run.status \notin Terminal
    /\ loop.pc \notin {"cancel_run", "raised"}

\* C24: the loop has no timeout and no limit on its polls.  As long as the
\* service keeps the run among queued, in_progress, requires_action, with
\* calls listed whenever it is action-required, the loop never leaves and
\* comes back to the poll again and again; a batch of which every call
\* fails changes nothing in that.
C24_NoLocalPollLimit ==
    []RunStaysActive => ([](loop.pc # "done") /\ []<>(loop.pc = "get_run"))

\* the loop is back at the poll after a batch of two calls that both
\* failed, with nothing collected and nothing submitted
C24_Witness ==
    /\ loop.pc = "get_run"
    /\ loop.run.status = "requires_action"
    /\ loop.tool_calls = <<call_unknown, call_cut>>
    /\ loop.k = 3
    /\ loop.tool_outputs = <<>>

(***************************************************************************)
(* Calls that are listed again.                                            *)
(***************************************************************************)
\* the iteration of poll i has run to its end
IterationDone(l, i) == IterationOver(l, i) \/ l.pc = "slept"

\* the number of calls of the batch of poll i the for loop has passed
PassedBy(l, i) ==
    IF IterationDone(l, i) \/ l.pc = "submit_tool_outputs"
    THEN Len(l.trace[i].run.tool_calls)
    ELSE l.k - 1

\* the invocations of the call id among the events lo..hi
InvocationsOf(t, id, lo, hi) ==
    {j \in lo..hi : t[j].op = "execute" /\ t[j].id = id}

\* C25: the loop keeps no record of the call ids it has handled.  In the
\* iteration of every poll that lists a function call, whether or not an
\* earlier poll listed it and whether or not it was answered then, the
\* call is invoked exactly once when the for loop passes it; and when it
\* succeeds, the submission of that iteration carries its output, once.
C25_InvokedAgainAtEveryListing ==
    \A i \in PollsOf(T) :
        HasBatch(T[i]) =>
            LET calls == T[i].run.tool_calls
                last == GetRunAfter(T, i) - 1
                passed == PassedBy(loop, i)
                over == IterationDone(loop, i)
            IN  \A k \in 1..Len(calls) :
                    calls[k].type = "function" =>
                        /\ Cardinality(InvocationsOf(T, calls[k].id, i + 1, last))
                               = IF k <= passed THEN 1 ELSE 0
                        /\ (over /\ Succeeds(calls[k])) =>
                              \E j \in Submissions(T, (i + 1)..last) :
                                  Cardinality(OutputsFor(T[j].outputs, calls[k].id)) = 1

\* fetch_weather answered in the first iteration, listed again by the
\* second poll together with a call that fails, invoked and answered again
C25_Witness ==
    /\ Len(T) = 9
    /\ T[2].run.tool_calls = <<call_weather>>
    /\ T[3].op = "execute" /\ T[3].ok /\ T[3].id = "call_2"
    /\ T[4].op = "submit_tool_outputs" /\ T[4].ok
    /\ T[5].run.tool_calls = <<call_unknown, call_weather>>
    /\ T[8].op = "execute" /\ T[8].ok /\ T[8].id = "call_2"
    /\ T[9].op = "submit_tool_outputs" /\ T[9].ok
    /\ T[9].outputs = T[4].outputs

\* print(f"Run completed with status: {run.status}")
run_completed_with_status(l) == l.run.status

\* C26: after the cancellation of a run whose action-required state listed
\* no calls, the loop has left: the cancel request is the last thing it
\* did, no poll follows, and the run it holds is the one the last poll
\* returned, so that the status it reports after the loop is
\* requires_action and not cancelled.
C26_CancelledRunReportsRequiresAction ==
    \A j \in Cancellations(T) :
        T[j].ok =>
            /\ j = Len(T)
            /\ loop.pc = "done"
            /\ IsPoll(T[j - 1])
            /\ loop.run = T[j - 1].run
            /\ run_completed_with_status(loop) = "requires_action"

\* a poll that returned in_progress, a poll that returned action-required
\* without calls, the cancellation, and the loop left
C26_Witness ==
    /\ Len(T) = 4
    /\ T[2].run.status = "in_progress"
    /\ EmptyAction(T[3])
    /\ T[4].op = "cancel_run" /\ T[4].ok
    /\ loop.pc = "done"
    /\ run_completed_with_status(loop) = "requires_action"

(***************************************************************************)
(* The two isinstance tests.                                               *)
(***************************************************************************)
FunctionCallIds(calls) ==
    {calls[k].id : k \in {n \in 1..Len(calls) : calls[n].type = "function"}}

\* the poll returned action-required with an action that is no
\* SubmitToolOutputsAction
OtherAction(e) ==
    /\ IsPoll(e)
    /\ e.run.status = "requires_action"
    /\ e.run.required_action # "SubmitToolOutputsAction"

\* the poll returned a batch of calls of which none is a function call
NoFunctionCall(e) == HasBatch(e) /\ FunctionCallIds(e.run.tool_calls) = {}

\* nothing but the next poll follows poll i
OnlyPollsAgain(l, i) ==
    IF i = Len(l.trace)
    THEN l.pc = "for" \/ HeadsForPoll(l)
    ELSE l.trace[i + 1].op = "get_run"

\* C27: a pending call that is no function call is passed over: it is not
\* invoked, gets no ToolOutput and no line is printed for it.  An
\* action-required state whose action is no SubmitToolOutputsAction leads
\* to no submission and no cancellation.  In both cases the loop goes on
\* to the next poll; a batch made only of calls that are no function calls
\* is neither answered nor cancelled.
C27_OtherCallsAndActionsPassedOver ==
    /\ \A j \in 1..Len(T) :
          LET i == GetRunBefore(T, j)
          IN  /\ T[j].op \in {"execute", "print_error"} =>
                    T[j].id \in FunctionCallIds(T[i].run.tool_calls)
              /\ T[j].op = "submit_tool_outputs" =>
                    OutputIds(T[j].outputs) \subseteq FunctionCallIds(T[i].run.tool_calls)
    /\ loop.pc \in {"for", "submit_tool_outputs"} =>
          OutputIds(loop.tool_outputs) \subseteq FunctionCallIds(loop.tool_calls)
    /\ \A i \in PollsOf(T) :
          (OtherAction(T[i]) \/ NoFunctionCall(T[i])) => OnlyPollsAgain(loop, i)

\* a poll that listed one call, of the code interpreter, and the next
\* poll, which returned an action that is no SubmitToolOutputsAction
C27_Witness ==
    /\ Len(T) = 3
    /\ T[2].run.tool_calls = <<call_other>>
    /\ OtherAction(T[3])
    /\ loop.pc = "get_run"

(***************************************************************************)
(* The place of the while test.                                            *)
(***************************************************************************)
\* the events in which the service returned a run
ReturnsRun(e) == e.op \in {"create_run", "get_run"} /\ e.ok

\* C28: the status is tested before the poll.  When create_run returns a
\* status that is none of queued, in_progress, requires_action, the loop
\* does nothing for the run: no poll, no invocation, no submission, no
\* cancellation.  Every poll is made on a status that passed the test.
\* What a poll returns is acted on at once, in the same iteration: the
\* loop stands in the for loop or at the cancellation right after the
\* poll, and the test that ends the loop is made on that status only
\* afterwards, at the head of the next iteration.
C28_StatusTestedBeforePoll ==
    /\ (Len(T) >= 1 /\ ReturnsRun(T[1]) /\ T[1].run.status \notin Active) =>
          (Len(T) = 1 /\ loop.pc \in {"while", "done"})
    /\ \A j \in 2..Len(T) :
          T[j].op = "get_run" => (ReturnsRun(T[j - 1]) => T[j - 1].run.status \in Active)
    /\ loop.pc \in AtPoll => loop.run.status \in Active
    /\ (Len(T) >= 1 /\ IsPoll(T[Len(T)])) =>
          LET e == T[Len(T)]
          IN  /\ EmptyAction(e) => loop.pc = "cancel_run"
              /\ (HasBatch(e) /\ e.run.tool_calls[1].type = "function") =>
                    loop.pc = "for" /\ loop.k = 1
              /\ ~AsksFor(e) => loop.pc \in {"while", "done"} \cup AtPoll
              /\ loop.pc = "done" => e.run.status \notin Active

\* create_run returned failed, and the loop has left without a poll
C28_Witness ==
    /\ Len(T) = 1
    /\ T[1].op = "create_run" /\ T[1].ok
    /\ T[1].run.status = "failed"
    /\ loop.pc = "done"

(***************************************************************************)
(* The retrieval chain, continued.                                         *)
(***************************************************************************)
\* the text is a JSON object with an "intent" member
HasIntent(content) ==
    LET r == JsonLoads(content)
    IN  r.ok /\ r.val.t = "dict" /\ "intent" \in Keys(r.val)

CallsOf(t, op) == {i \in 1..Len(t) : t[i].op = op}

\* C29: a failure at a step of the retrieval ends chat_with_documents with
\* the error.  When the response of the intent completion is no JSON
\* object with an "intent" member, no embedding, search or final
\* completion is requested; when the embedding fails, no search or final
\* completion; when the search fails, no final completion.  A call that
\* failed is the last one made: nothing is retried, and no answer is
\* returned.
C29_FailureStopsTheChain ==
    chat.pc # "idle" =>
        LET t == chat.trace
            n == Len(t)
        IN  /\ \A i \in 1..n : ~t[i].ok => (i = n /\ chat.pc = "raised")
            /\ (n >= 1 /\ t[1].ok /\ ~HasIntent(t[1].output)) =>
                  (n = 1 /\ chat.pc \in {"json_loads", "raised"})
            /\ (chat.pc = "raised" /\ n >= 1 /\ ~t[n].ok) =>
                  /\ t[n].op = "embeddings.embed" =>
                        CallsOf(t, "search_client.search") = {}
                  /\ t[n].op \in {"embeddings.embed", "search_client.search"} =>
                        Cardinality(CallsOf(t, "chat.complete")) = 1
            /\ Cardinality(CallsOf(t, "embeddings.embed")) <= 1
            /\ Cardinality(CallsOf(t, "search_client.search")) <= 1
            /\ Cardinality(CallsOf(t, "chat.complete")) <= 2
            /\ chat.pc = "raised" => chat.response = ""

\* the chat model answered the intent request with plain text: json.loads
\* raised and nothing else was requested
C29_Witness ==
    /\ chat.pc = "raised"
    /\ Len(chat.trace) = 1
    /\ chat.trace[1].ok
    /\ chat.trace[1].output = "llm versus diffusion models"

\* the request of the final completion, once it has been made
GenerationRequests == {chat.trace[i].input : i \in {j \in 1..Len(chat.trace) : j = 4}}

\* the list is the system message made of the documents, followed by one
\* user message for every input message, in order
IsFinalRequestFor(formatted, messages, documents) ==
    /\ Len(formatted) = Len(messages) + 1
    /\ formatted[1] = get_completion_system_message(documents)
    /\ formatted[1].role = "system"
    /\ \A i \in 1..Len(messages) :
          /\ formatted[i + 1].role = "user"
          /\ formatted[i + 1].content = Get(messages[i], "content")

\* C30: the request of the final completion made for n input messages
\* holds n + 1 messages: first the system message with the documents the
\* search returned, then for every input message, in the order of the
\* input, a message of role user with its content, whatever role the input
\* message had.
C30_FinalRequestHasOneMessageMore ==
    /\ chat.pc = "complete" =>
          IsFinalRequestFor(chat.formatted_messages, chat.messages, chat.documents)
    /\ \A request \in GenerationRequests :
          /\ IsFinalRequestFor(request.messages, chat.messages,
                               Documents(chat.trace[3].output))
          /\ request.max_tokens = MaxTokens

\* a conversation of a user and an assistant message: the request holds
\* three messages, the last two of role user
C30_Witness ==
    /\ chat.pc = "returned"
    /\ Len(chat.messages) = 2
    /\ Get(chat.messages[2], "role") = Str("assistant")
    /\ Len(chat.trace[4].input.messages) = 3
    /\ chat.trace[4].input.messages[3] = UserMessage(Str("they are trained on text"))

====
